---- MODULE Spec2Model ----
(***************************************************************************)
(* A model of audiobook-producer: voice assignment (voices.py), the        *)
(* pipeline state manager (artifacts.py), speech synthesis (tts.py) and    *)
(* the commands new / set / run (cli.py).                                  *)
(*                                                                         *)
(* A Python dict is a TLA+ function whose domain is the dict's keys, so    *)
(* d.get(k, default) is Get(d, k, default).  An insertion-ordered dict     *)
(* that the code iterates (the cast entries) is a sequence of              *)
(* [name, info] pairs in iteration order.                                  *)
(***************************************************************************)
EXTENDS Integers, Sequences, FiniteSets, TLC

VARIABLES
    \* ---- voices.py: the arguments and result of assign_voices ----
    segments,   \* list[Segment], mutated in place by assign_voices
    cast,       \* the cast dict handed to assign_voices
    via,        \* ghost: the branch that voiced each segment
    vpc,        \* "idle" | "input" | "assigned"
    \* ---- artifacts.py: the arguments and result of check_step_fresh ----
    fStep,      \* step_name
    fOut,       \* what the file system holds at the step's output path
    fInputs,    \* what the file system holds at each of input_paths
    fResult,    \* the value returned
    fpc,        \* "idle" | "input" | "done"
    \* ---- the project directory output/<slug> ----
    json,       \* the JSON artifacts that exist: file name -> content
    dirs,       \* the subdirectories that exist: name -> (file name -> data)
    \* ---- artifacts.py: invalidate_downstream and get_project_status ----
    invKey,     \* setting_key of the last invalidate_downstream call
    invDeleted, \* the list it returned
    invBefore,  \* ghost: json and dirs before that call
    invPrev,    \* ghost: key and result of the call before it
    status,     \* the dict get_project_status returned last
    \* ---- cli.py: the commands new / set / run ----
    last,       \* ghost: what the last command was and how it ended
    hist,       \* ghost: facts about the commands before it
    \* ---- parser.py: the argument and result of a parsing function ----
    pText,      \* the text handed to it
    pThreshold, \* the threshold of _split_long_segment
    pOut,       \* the list it returned
    pRanges,    \* the dialogue ranges _extract_from_paragraph found
    ppc,        \* "idle" | "input" | "done" and the like
    \* ---- assembly.py: the arguments and result of concatenation ----
    aSegments,  \* list[Segment]
    aAudio,     \* list[AudioSegment], one clip for each segment
    aOut,       \* the AudioSegment returned
    apc,        \* "idle" | "input" | "done"
    \* ---- tts.py: one call of generate_single ----
    gService,   \* what the speech service does at each attempt made
    gFile,      \* what the file system holds at output_path
    gOut,       \* how the call ended
    gpc         \* "idle" | "input" | "done"

voiceVars == <<segments, cast, via, vpc>>
freshVars == <<fStep, fOut, fInputs, fResult, fpc>>
storeVars == <<json, dirs>>
invVars == <<invKey, invDeleted, invBefore, invPrev>>
cmdVars == <<last, hist>>
parserVars == <<pText, pThreshold, pOut, pRanges, ppc>>
asmVars == <<aSegments, aAudio, aOut, apc>>
singleVars == <<gService, gFile, gOut, gpc>>
unitVars == <<pText, pThreshold, pOut, pRanges, ppc, aSegments, aAudio, aOut, apc,
              gService, gFile, gOut, gpc>>
vars == <<segments, cast, via, vpc, fStep, fOut, fInputs, fResult, fpc,
          json, dirs, invKey, invDeleted, invBefore, invPrev, status,
          last, hist, pText, pThreshold, pOut, pRanges, ppc,
          aSegments, aAudio, aOut, apc, gService, gFile, gOut, gpc>>

----------------------------------------------------------------------------
(* Python helpers *)

\* {} : the empty dict
EmptyDict == [k \in {} |-> ""]

\* dict.get(k, default)
Get(d, k, default) == IF k \in DOMAIN d THEN d[k] ELSE default

\* dict.get(k) with no default: None
None == "<None>"

\* Python truthiness of a str-or-None value
Truthy(v) == v # None /\ v # ""

\* str.lower() on the names the model uses
LowerTable ==
    [s \in {"The Niece", "The Child", "Bob", "Narrator", "Alice"} |->
        CASE s = "The Niece" -> "the niece"
          [] s = "Alice"     -> "alice"
          [] s = "The Child" -> "the child"
          [] s = "Bob"       -> "bob"
          [] s = "Narrator"  -> "narrator"]

lower(s) == IF s \in DOMAIN LowerTable THEN LowerTable[s] ELSE s

\* int(hashlib.sha256(s.encode()).hexdigest(), 16) reduced modulo
\* lcm(1..14) = 360360, which keeps its residue modulo every pool size 1..14
Sha256Table ==
    [s \in {"alice", "bob", "the niece", "the child", "narrator", "unknown"} |->
        CASE s = "alice"     -> 75200
          [] s = "bob"       -> 127465
          [] s = "the niece" -> 320604
          [] s = "the child" -> 303484
          [] s = "narrator"  -> 132611
          [] s = "unknown"   -> 145108]

----------------------------------------------------------------------------
(* The state of a part of the program that a specification does not use *)

NoStatus == [k \in {} |-> 0]
NoKey == "<none>"

\* the three segment lists of a project, before there is one
NoScript ==
    [segments |-> <<>>, intro_segments |-> <<>>, outro_segments |-> <<>>]

\* no command has run yet
NoCmd ==
    [cmd |-> "none", outcome |-> "ok", key |-> "", values |-> <<>>,
     force |-> FALSE, clean |-> FALSE, tts_skipped |-> FALSE,
     present |-> {}, synth |-> {}, script |-> NoScript]

\* clean: the last command was a run that succeeded; new: the segment
\* lists cmd_new held when it wrote the project; set: a set command was
\* given since
NoHist == [clean |-> FALSE, cmds |-> 0, new |-> NoScript, set |-> FALSE]

CmdIdle ==
    /\ last = NoCmd
    /\ hist = NoHist

ParserIdle ==
    /\ pText = ""
    /\ pThreshold = 0
    /\ pOut = <<>>
    /\ pRanges = <<>>
    /\ ppc = "idle"

AsmIdle ==
    /\ aSegments = <<>>
    /\ aAudio = <<>>
    /\ aOut = <<>>
    /\ apc = "idle"

SingleIdle ==
    /\ gService = <<>>
    /\ gFile = [size |-> 0]
    /\ gOut = [raised |-> FALSE]
    /\ gpc = "idle"

UnitsIdle ==
    /\ ParserIdle
    /\ AsmIdle
    /\ SingleIdle

InvIdle ==
    /\ invKey = NoKey
    /\ invDeleted = <<>>
    /\ invBefore = [json |-> EmptyDict, dirs |-> EmptyDict]
    /\ invPrev = [key |-> NoKey, deleted |-> <<>>]
    /\ status = NoStatus

StoreIdle ==
    /\ CmdIdle
    /\ json = EmptyDict
    /\ dirs = EmptyDict
    /\ invKey = NoKey
    /\ invDeleted = <<>>
    /\ invBefore = [json |-> EmptyDict, dirs |-> EmptyDict]
    /\ invPrev = [key |-> NoKey, deleted |-> <<>>]
    /\ status = NoStatus

FreshIdle ==
    /\ fStep = "parse"
    /\ fOut = [kind |-> "absent"]
    /\ fInputs = <<>>
    /\ fResult = FALSE
    /\ fpc = "idle"

VoicesIdle ==
    /\ segments = <<>>
    /\ cast = [narrator |-> EmptyDict, cast |-> <<>>]
    /\ via = <<>>
    /\ vpc = "idle"

----------------------------------------------------------------------------
(* constants.py, voices.py *)

NARRATOR_VOICE == "en-US-RogerNeural"
NARRATOR_DIALOGUE_VOICE == "en-GB-RyanNeural"

VOICE_POOL ==
    << "en-US-AriaNeural", "en-US-DavisNeural", "en-US-TonyNeural",
       "en-US-JennyNeural", "en-US-SaraNeural", "en-GB-SoniaNeural",
       "en-GB-ThomasNeural", "en-AU-NatashaNeural", "en-AU-WilliamNeural",
       "en-CA-ClaraNeural", "en-CA-LiamNeural", "en-IN-NeerjaNeural",
       "en-IN-PrabhatNeural", "en-IE-EmilyNeural" >>

PoolSet(pool) == {pool[i] : i \in 1..Len(pool)}

\* models.Segment
Segment(type, text, speaker, voice) ==
    [type |-> type, text |-> text, speaker |-> speaker, voice |-> voice]

\* a faulty variant: aliases are ignored
resolve_alias_ignored(speaker, c) == lower(speaker)

\* _resolve_alias: the first entry, in iteration order, that lists the
\* speaker among its aliases (case-insensitively) gives its lowercased name
RECURSIVE resolve_alias_from(_, _, _)
resolve_alias_from(speaker, cast_entries, i) ==
    IF i > Len(cast_entries) THEN lower(speaker)
    ELSE LET aliases == Get(cast_entries[i].info, "aliases", {})
         IN  IF lower(speaker) \in {lower(a) : a \in aliases}
             THEN lower(cast_entries[i].name)
             ELSE resolve_alias_from(speaker, cast_entries, i + 1)

resolve_alias(speaker, c) == resolve_alias_from(speaker, c.cast, 1)

\* _hash_voice: pool[int(sha256(speaker)) % len(pool)]
hash_voice_mod1(speaker, pool) ==
    pool[((Sha256Table[speaker] + 1) % Len(pool)) + 1]

hash_voice(speaker, pool) ==
    pool[(Sha256Table[speaker] % Len(pool)) + 1]

\* assign_voices, lines 74-88: the voices excluded from the hash pool
used_voices_narrator_only(c) ==
    {NARRATOR_VOICE, NARRATOR_DIALOGUE_VOICE,
     Get(c.narrator, "voice", NARRATOR_VOICE),
     Get(c.narrator, "dialogue_voice", NARRATOR_DIALOGUE_VOICE)}

used_voices(c) ==
    {NARRATOR_VOICE, NARRATOR_DIALOGUE_VOICE,
     Get(c.narrator, "voice", NARRATOR_VOICE),
     Get(c.narrator, "dialogue_voice", NARRATOR_DIALOGUE_VOICE)}
    \cup {c.cast[i].info["voice"] :
            i \in {j \in 1..Len(c.cast) : "voice" \in DOMAIN c.cast[j].info}}

available_pool(c) ==
    LET filtered == SelectSeq(VOICE_POOL, LAMBDA v : v \notin used_voices(c))
    IN  IF filtered = <<>> THEN VOICE_POOL ELSE filtered

\* assign_voices, lines 104-109: the voice of the first entry whose
\* lowercased name is the resolved speaker (None without such an entry)
RECURSIVE cast_lookup_from(_, _, _)
cast_lookup_from(resolved, cast_entries, i) ==
    IF i > Len(cast_entries) THEN None
    ELSE IF lower(cast_entries[i].name) = resolved
         THEN Get(cast_entries[i].info, "voice", None)
         ELSE cast_lookup_from(resolved, cast_entries, i + 1)

\* assign_voices, lines 90-115: the body of the loop for one segment,
\* as [voice, via]
narrator_branch_swapped(seg, c) ==
    IF seg.type = "dialogue"
    THEN Get(c.narrator, "voice", NARRATOR_VOICE)
    ELSE Get(c.narrator, "dialogue_voice", NARRATOR_DIALOGUE_VOICE)

narrator_branch(seg, c) ==
    IF seg.type = "dialogue"
    THEN Get(c.narrator, "dialogue_voice", NARRATOR_DIALOGUE_VOICE)
    ELSE Get(c.narrator, "voice", NARRATOR_VOICE)

assign_one(seg, c, pool) ==
    LET speaker == lower(seg.speaker) IN
    IF speaker = "narrator"
    THEN [voice |-> narrator_branch(seg, c), via |-> "narrator"]
    ELSE LET resolved   == resolve_alias(speaker, c)
             cast_voice == cast_lookup_from(resolved, c.cast, 1)
         IN  IF Truthy(cast_voice)
             THEN [voice |-> cast_voice, via |-> "cast"]
             ELSE [voice |-> hash_voice(resolved, pool), via |-> "hash"]

\* a faulty variant: every hash-assigned voice is taken out of the pool for
\* the segments after it
RECURSIVE assign_consuming(_, _, _, _)
assign_consuming(segs, c, pool, i) ==
    IF i > Len(segs) THEN segs
    ELSE LET r    == assign_one(segs[i], c, pool)
             rest == SelectSeq(pool, LAMBDA v : v # r.voice)
             next == IF r.via = "hash" /\ rest # <<>> THEN rest ELSE pool
         IN  assign_consuming([segs EXCEPT ![i].voice = r.voice], c, next, i + 1)

assign_voices_consuming(segs, c) ==
    assign_consuming(segs, c, available_pool(c), 1)

\* assign_voices: the segments with their voice field set
assign_voices(segs, c) ==
    [i \in 1..Len(segs) |->
        [segs[i] EXCEPT !.voice = assign_one(segs[i], c, available_pool(c)).voice]]

\* ghost: which branch voiced each segment
assign_via(segs, c) ==
    [i \in 1..Len(segs) |-> assign_one(segs[i], c, available_pool(c)).via]

----------------------------------------------------------------------------
(* The inputs of assign_voices *)

MaxSegs == 2

SegChoices ==
    { Segment("dialogue",  "t", "narrator", ""),
      Segment("narration", "t", "Narrator", ""),
      Segment("dialogue",  "t", "alice", ""),
      Segment("dialogue",  "t", "Bob", ""),
      Segment("dialogue",  "t", "the child", ""),
      Segment("dialogue",  "t", "the niece", ""),
      Segment("dialogue",  "t", "unknown", "") }

SegLists == UNION {[1..n -> SegChoices] : n \in 0..MaxSegs}

\* the "narrator" entry of a cast file
NarratorChoices ==
    { EmptyDict,
      [voice |-> "en-GB-ThomasNeural"],
      [voice |-> "", dialogue_voice |-> "en-CA-ClaraNeural"] }

\* the character entries of a cast file
CastNames == {"The Niece", "bob"}

InfoChoices ==
    { EmptyDict,
      [voice |-> "en-GB-ThomasNeural"],
      [aliases |-> {"The Child"}],
      [voice |-> "en-GB-ThomasNeural", aliases |-> {"The Child"}],
      [aliases |-> {"bob"}],
      [voice |-> "en-US-AriaNeural", aliases |-> {"the child", "bob"}],
      [aliases |-> {"narrator", "unknown"}],
      [voice |-> "en-US-AriaNeural", aliases |-> {"narrator", "unknown"}],
      [voice |-> ""] }

EntryChoices == [name : CastNames, info : InfoChoices]

EntryLists ==
    { es \in UNION {[1..n -> EntryChoices] : n \in 0..Cardinality(CastNames)} :
        \A i, j \in 1..Len(es) : i # j => es[i].name # es[j].name }

\* a cast file that pins every voice of the pool to some character
PinNames ==
    << "c01", "c02", "c03", "c04", "c05", "c06", "c07",
       "c08", "c09", "c10", "c11", "c12", "c13", "c14" >>

FullCast ==
    [narrator |-> EmptyDict,
     cast |-> [i \in 1..Len(VOICE_POOL) |->
                 [name |-> PinNames[i], info |-> [voice |-> VOICE_POOL[i]]]]]

CastChoices ==
    [narrator : NarratorChoices, cast : EntryLists] \cup {FullCast}

VoicesInit ==
    /\ UnitsIdle
    /\ FreshIdle
    /\ StoreIdle
    /\ segments \in SegLists
    /\ cast \in CastChoices
    /\ via = [i \in 1..Len(segments) |-> "none"]
    /\ vpc = "input"

\* assign_voices(segments, cast)
AssignVoices ==
    /\ vpc = "input"
    /\ segments' = assign_voices(segments, cast)
    /\ via' = assign_via(segments, cast)
    /\ vpc' = "assigned"
    /\ UNCHANGED <<cast, freshVars, storeVars, invVars, status, cmdVars, unitVars>>

VoicesNext == AssignVoices

SpecVoices == VoicesInit /\ [][VoicesNext]_vars

----------------------------------------------------------------------------
(* artifacts.py: check_step_fresh *)

\* What os.path reports of one path: it does not exist, it is a file with a
\* modification time, or it is a directory whose entries each have one.
AbsentPath == [kind |-> "absent"]
FilePath(t) == [kind |-> "file", mtime |-> t]
DirPath(members) == [kind |-> "dir", members |-> members]

\* check_step_fresh, lines 308-316
output_map ==
    [parse    |-> "script.json",
     voices   |-> "cast.json",
     tts      |-> "segments",
     effects  |-> "effects.json",
     music    |-> "music/background.mp3",
     assembly |-> "samples/preview_60s.mp3",
     export   |-> "final"]

\* max(...) over a non-empty set of numbers
MaxOf(S) == CHOOSE x \in S : \A y \in S : y <= x

RECURSIVE inputs_not_newer_strict(_, _, _)
inputs_not_newer_strict(inputs, output_mtime, i) ==
    IF i > Len(inputs) THEN TRUE
    ELSE IF inputs[i].kind = "absent"
         THEN inputs_not_newer_strict(inputs, output_mtime, i + 1)
         ELSE IF inputs[i].mtime >= output_mtime THEN FALSE
              ELSE inputs_not_newer_strict(inputs, output_mtime, i + 1)

\* check_step_fresh, lines 340-346: the loop over input_paths
RECURSIVE inputs_loop(_, _, _)
inputs_loop(inputs, output_mtime, i) ==
    IF i > Len(inputs) THEN TRUE
    ELSE IF inputs[i].kind = "absent"
         THEN inputs_loop(inputs, output_mtime, i + 1)
         ELSE IF inputs[i].mtime > output_mtime THEN FALSE
              ELSE inputs_loop(inputs, output_mtime, i + 1)

\* a faulty variant: an input exactly as old as the output counts as newer
inputs_older_only(inputs, output_mtime) ==
    inputs_not_newer_strict(inputs, output_mtime, 1)

inputs_not_newer(inputs, output_mtime) == inputs_loop(inputs, output_mtime, 1)

\* check_step_fresh(project_dir, step_name, input_paths), with the file
\* system's answers for the output path and the input paths as arguments
check_step_fresh(step_name, out, inputs) ==
    IF step_name \notin DOMAIN output_map \/ out.kind = "absent" THEN FALSE
    ELSE IF out.kind = "dir" /\ DOMAIN out.members = {} THEN FALSE
    ELSE LET output_mtime ==
                 IF out.kind = "dir"
                 THEN MaxOf({out.members[f] : f \in DOMAIN out.members})
                 ELSE out.mtime
         IN  IF inputs = <<>> THEN TRUE
             ELSE inputs_not_newer(inputs, output_mtime)

(* The inputs of check_step_fresh *)

MaxTime == 2
MaxInputs == 2
MaxMembers == 2

MemberNames == << "m1", "m2", "m3", "m4" >>

StepChoices == DOMAIN output_map \cup {"publish"}

OutChoices ==
    {AbsentPath}
    \cup {FilePath(t) : t \in 0..MaxTime}
    \cup {DirPath(m) :
            m \in UNION {[{MemberNames[i] : i \in 1..n} -> 0..MaxTime] :
                            n \in 0..MaxMembers}}

InputChoices ==
    {AbsentPath} \cup {FilePath(t) : t \in 0..MaxTime}

FreshInit ==
    /\ UnitsIdle
    /\ VoicesIdle
    /\ StoreIdle
    /\ fStep \in StepChoices
    /\ fOut \in OutChoices
    /\ fInputs \in UNION {[1..n -> InputChoices] : n \in 0..MaxInputs}
    /\ fResult = FALSE
    /\ fpc = "input"

\* check_step_fresh(project_dir, fStep, fInputs)
CheckStepFresh ==
    /\ fpc = "input"
    /\ fResult' = check_step_fresh(fStep, fOut, fInputs)
    /\ fpc' = "done"
    /\ UNCHANGED <<fStep, fOut, fInputs, voiceVars, storeVars, invVars, status, cmdVars, unitVars>>

FreshNext == CheckStepFresh

SpecFresh == FreshInit /\ [][FreshNext]_vars

----------------------------------------------------------------------------
(* artifacts.py: the project directory *)

\* A file name is <<stem, extension>>; f.endswith(".mp3") reads the extension
IsMp3(f) == f[2] = "mp3"

EmptyDir == [f \in {} |-> 0]

\* init_output_dir, lines 52-59
subdirs == << "voice_demos", "segments", "music", "samples", "chapters", "final" >>

Range(seq) == {seq[i] : i \in 1..Len(seq)}

\* a faulty variant of the map: music-db clears music/ as music does
INVALIDATION_MAP_music_db_clears_music ==
    [k \in {"voice", "narrator-voice", "narrator-dialogue", "music",
            "music-file", "music-db", "reverb", "reverb-room", "reverb-wet"} |->
        CASE k = "voice"             -> <<"voice_demos", "segments", "samples", "final">>
          [] k = "narrator-voice"    -> <<"voice_demos", "segments", "samples", "final">>
          [] k = "narrator-dialogue" -> <<"voice_demos", "segments", "samples", "final">>
          [] k = "music"             -> <<"music", "samples", "final">>
          [] k = "music-file"        -> <<"samples", "final">>
          [] k = "music-db"          -> <<"music", "samples", "final">>
          [] k = "reverb"            -> <<"segments", "samples", "final">>
          [] k = "reverb-room"       -> <<"segments", "samples", "final">>
          [] k = "reverb-wet"        -> <<"segments", "samples", "final">>]

\* INVALIDATION_MAP
INVALIDATION_MAP ==
    [k \in {"voice", "narrator-voice", "narrator-dialogue", "music",
            "music-file", "music-db", "reverb", "reverb-room", "reverb-wet"} |->
        CASE k = "voice"             -> <<"voice_demos", "segments", "samples", "final">>
          [] k = "narrator-voice"    -> <<"voice_demos", "segments", "samples", "final">>
          [] k = "narrator-dialogue" -> <<"voice_demos", "segments", "samples", "final">>
          [] k = "music"             -> <<"music", "samples", "final">>
          [] k = "music-file"        -> <<"samples", "final">>
          [] k = "music-db"          -> <<"samples", "final">>
          [] k = "reverb"            -> <<"segments", "samples", "final">>
          [] k = "reverb-room"       -> <<"segments", "samples", "final">>
          [] k = "reverb-wet"        -> <<"segments", "samples", "final">>]

\* a faulty variant of the loop: an existing directory is removed and not
\* made again
RECURSIVE invalidate_removing(_, _, _, _)
invalidate_removing(d, dirs_to_delete, i, deleted) ==
    IF i > Len(dirs_to_delete) THEN [dirs |-> d, deleted |-> deleted]
    ELSE LET subdir == dirs_to_delete[i] IN
         IF subdir \in DOMAIN d
         THEN invalidate_removing([x \in DOMAIN d \ {subdir} |-> d[x]],
                                  dirs_to_delete, i + 1, Append(deleted, subdir))
         ELSE invalidate_removing(d, dirs_to_delete, i + 1, deleted)

\* invalidate_downstream, lines 93-100: the loop over dirs_to_delete;
\* shutil.rmtree then os.makedirs leaves the directory existing and empty
RECURSIVE invalidate_loop(_, _, _, _)
invalidate_loop(d, dirs_to_delete, i, deleted) ==
    IF i > Len(dirs_to_delete) THEN [dirs |-> d, deleted |-> deleted]
    ELSE LET subdir == dirs_to_delete[i] IN
         IF subdir \in DOMAIN d
         THEN invalidate_loop([d EXCEPT ![subdir] = EmptyDir],
                              dirs_to_delete, i + 1, Append(deleted, subdir))
         ELSE invalidate_loop(d, dirs_to_delete, i + 1, deleted)

\* a faulty variant: only directories that hold something are cleared and
\* reported
invalidate_nonempty_only(d, setting_key) ==
    LET rule == Get(INVALIDATION_MAP, setting_key, <<>>)
        hit  == SelectSeq(rule, LAMBDA c : c \in DOMAIN d /\ d[c] # EmptyDir)
    IN  [dirs |-> [x \in DOMAIN d |-> IF x \in Range(hit) THEN EmptyDir ELSE d[x]],
         deleted |-> hit]

invalidate_downstream_removing(d, setting_key) ==
    invalidate_removing(d, Get(INVALIDATION_MAP, setting_key, <<>>), 1, <<>>)

\* invalidate_downstream(project_dir, setting_key): the project's
\* subdirectories afterwards and the list returned
invalidate_downstream(d, setting_key) ==
    invalidate_loop(d, Get(INVALIDATION_MAP, setting_key, <<>>), 1, <<>>)

\* get_project_status, lines 127-140: the TTS step; a falsy expected count
\* never gives "done"
tts_status_ge_only(d, parse) ==
    IF "segments" \in DOMAIN d
    THEN LET mp3s == {f \in DOMAIN d["segments"] : IsMp3(f)} IN
         IF mp3s # {}
         THEN LET expected == Get(parse, "segments", 0) IN
              IF Cardinality(mp3s) >= expected
              THEN [state |-> "done", files |-> Cardinality(mp3s)]
              ELSE [state |-> "partial", files |-> Cardinality(mp3s),
                    expected |-> expected]
         ELSE [state |-> "pending"]
    ELSE [state |-> "pending"]

tts_status(d, parse) ==
    IF "segments" \in DOMAIN d
    THEN LET mp3s == {f \in DOMAIN d["segments"] : IsMp3(f)} IN
         IF mp3s # {}
         THEN LET expected == Get(parse, "segments", 0) IN
              IF expected # 0 /\ Cardinality(mp3s) >= expected
              THEN [state |-> "done", files |-> Cardinality(mp3s)]
              ELSE [state |-> "partial", files |-> Cardinality(mp3s),
                    expected |-> expected]
         ELSE [state |-> "pending"]
    ELSE [state |-> "pending"]

DoneIf(b) == [state |-> IF b THEN "done" ELSE "pending"]

\* get_project_status(project_dir)
get_project_status(j, d) ==
    LET parse ==
            IF "script.json" \in DOMAIN j
            THEN [state |-> "done",
                  segments |-> Len(Get(j["script.json"], "segments", <<>>))]
            ELSE [state |-> "pending"]
        voices ==
            IF "cast.json" \in DOMAIN j
            THEN [state |-> "done",
                  voices |-> Len(Get(j["cast.json"], "characters", <<>>)) + 1]
            ELSE [state |-> "pending"]
    IN  [parse    |-> parse,
         voices   |-> voices,
         tts      |-> tts_status(d, parse),
         effects  |-> DoneIf("effects.json" \in DOMAIN j),
         music    |-> DoneIf("music" \in DOMAIN d
                             /\ <<"background", "mp3">> \in DOMAIN d["music"]),
         assembly |-> DoneIf("samples" \in DOMAIN d
                             /\ <<"preview_60s", "mp3">> \in DOMAIN d["samples"]),
         export   |-> DoneIf("final" \in DOMAIN d
                             /\ \E f \in DOMAIN d["final"] : IsMp3(f))]

(* invalidate_downstream on any project directory *)

\* what a subdirectory may hold before the call
OneFile == [f \in {<<"test", "txt">>} |-> [size |-> 1]]

DirChoices ==
    { d \in UNION {[S -> {EmptyDir, OneFile}] : S \in SUBSET Range(subdirs)} : TRUE }

JsonNames == {"script.json", "cast.json", "direction.json", "effects.json"}

KeyChoices == DOMAIN INVALIDATION_MAP \cup {"bitrate"}

InvInit ==
    /\ UnitsIdle
    /\ VoicesIdle
    /\ FreshIdle
    /\ CmdIdle
    /\ json \in {EmptyDict, [n \in JsonNames |-> [v |-> 1]]}
    /\ dirs \in DirChoices
    /\ invKey = NoKey
    /\ invDeleted = <<>>
    /\ invBefore = [json |-> json, dirs |-> dirs]
    /\ invPrev = [key |-> NoKey, deleted |-> <<>>]
    /\ status = NoStatus

\* deleted = invalidate_downstream(project_dir, key)
InvalidateDownstream(key) ==
    LET r == invalidate_downstream(dirs, key) IN
    /\ dirs' = r.dirs
    /\ invDeleted' = r.deleted
    /\ invKey' = key
    /\ invBefore' = [json |-> json, dirs |-> dirs]
    /\ invPrev' = [key |-> invKey, deleted |-> invDeleted]
    /\ UNCHANGED <<json, status, voiceVars, freshVars, cmdVars, unitVars>>

InvNext == \E key \in KeyChoices : InvalidateDownstream(key)

SpecInv == InvInit /\ [][InvNext]_vars

(* get_project_status on any project directory *)

MaxScriptSegs == 3
MaxAudio == 3

AudioNames == << <<"000", "mp3">>, <<"001", "mp3">>, <<"002", "mp3">>,
                 <<"003", "mp3">>, <<"004", "mp3">> >>

\* script.json: absent, without a "segments" list, or with 0..MaxScriptSegs
ScriptChoices ==
    {[metadata |-> "m"]}
    \cup {[metadata |-> "m", segments |-> [i \in 1..n |-> "s"]] : n \in 0..MaxScriptSegs}

StatusJsonChoices ==
    {EmptyDict, [n \in {"cast.json", "effects.json"} |-> [v |-> 1]]}
    \cup {[n \in {"script.json"} |-> sc] : sc \in ScriptChoices}
    \cup {[n \in {"script.json", "cast.json"} |->
             IF n = "script.json" THEN sc ELSE [characters |-> <<"c">>]] :
          sc \in ScriptChoices}

\* segments/: missing, or some audio files with or without another file
SegmentsDirChoices ==
    {[f \in {AudioNames[i] : i \in 1..n} \cup extra |-> [size |-> 1]] :
        n \in 0..MaxAudio, extra \in {{}, {<<"notes", "txt">>}}}

OtherDirsChoices ==
    { EmptyDict,
      [c \in {"music", "samples", "final"} |-> EmptyDir],
      [c \in {"music", "samples", "final"} |->
          CASE c = "music"   -> [f \in {<<"background", "mp3">>} |-> [size |-> 1]]
            [] c = "samples" -> [f \in {<<"preview_60s", "mp3">>} |-> [size |-> 1]]
            [] c = "final"   -> [f \in {<<"output", "json">>} |-> [size |-> 1]]],
      [c \in {"final"} |-> [f \in {<<"slug", "mp3">>} |-> [size |-> 1]]] }

StatusInit ==
    /\ UnitsIdle
    /\ VoicesIdle
    /\ FreshIdle
    /\ CmdIdle
    /\ json \in StatusJsonChoices
    /\ \E other \in OtherDirsChoices :
          \/ dirs = other
          \/ \E sd \in SegmentsDirChoices :
                dirs = [c \in DOMAIN other \cup {"segments"} |->
                            IF c = "segments" THEN sd ELSE other[c]]
    /\ invKey = NoKey
    /\ invDeleted = <<>>
    /\ invBefore = [json |-> EmptyDict, dirs |-> EmptyDict]
    /\ invPrev = [key |-> NoKey, deleted |-> <<>>]
    /\ status = NoStatus

\* status = get_project_status(project_dir)
GetProjectStatus ==
    /\ status = NoStatus
    /\ status' = get_project_status(json, dirs)
    /\ UNCHANGED <<json, dirs, invVars, voiceVars, freshVars, cmdVars, unitVars>>

StatusNext == GetProjectStatus

SpecStatus == StatusInit /\ [][StatusNext]_vars

----------------------------------------------------------------------------
(* Python helpers of the commands *)

\* str.replace(" ", "_").lower() on the names the model uses
speaker_slug(s) ==
    LET l == lower(s) IN
    CASE l = "the child" -> "the_child"
      [] l = "the niece" -> "the_niece"
      [] OTHER           -> l

\* str.title() on the names the model uses
title_case(s) ==
    CASE s = "alice"     -> "Alice"
      [] s = "bob"       -> "Bob"
      [] s = "the child" -> "The Child"
      [] s = "the niece" -> "The Niece"
      [] OTHER           -> s

\* f"{index:03d}"
idx3(index) ==
    IF index < 10 THEN "00" \o ToString(index)
    ELSE IF index < 100 THEN "0" \o ToString(index)
    ELSE ToString(index)

\* A str of the parser is a TLA+ string: Len, \o, SubSeq and Tail are
\* len(), +, slicing and s[1:]; a character is a string of length 1.
CharAt(t, i) == SubSeq(t, i, i)

\* the characters str.isspace() and the regular expression \s accept
Whitespace == {" ", "\n", "\t"}

\* str.lstrip(), str.rstrip() and str.strip()
RECURSIVE lstrip(_)
lstrip(t) ==
    IF t # "" /\ CharAt(t, 1) \in Whitespace THEN lstrip(Tail(t)) ELSE t

RECURSIVE rstrip(_)
rstrip(t) ==
    IF t # "" /\ CharAt(t, Len(t)) \in Whitespace
    THEN rstrip(SubSeq(t, 1, Len(t) - 1)) ELSE t

strip(t) == rstrip(lstrip(t))

\* float(s) on the values the model uses; "ValueError" when it raises
float(s) ==
    CASE s = "-18" -> "-18.0"
      [] s = "0.5" -> "0.5"
      [] s = "0.4" -> "0.4"
      [] OTHER     -> "ValueError"

\* JSON null where the other values are dicts
JsonNull == [null |-> TRUE]

\* d[k] = v
Put(d, k, v) == [x \in DOMAIN d \cup {k} |-> IF x = k THEN v ELSE d[x]]

\* an insertion-ordered dict as a sequence of [name, info]: its keys,
\* d[name], and d[name] = info
Names(entries) == {entries[i].name : i \in 1..Len(entries)}

Lookup(entries, name) ==
    entries[CHOOSE i \in 1..Len(entries) : entries[i].name = name].info

PutEntry(entries, name, info) ==
    IF name \in Names(entries)
    THEN [i \in 1..Len(entries) |->
            IF entries[i].name = name
            THEN [name |-> name, info |-> info] ELSE entries[i]]
    ELSE Append(entries, [name |-> name, info |-> info])

\* os.makedirs(project_dir/subdir, exist_ok=True)
makedirs(d, subdir) == IF subdir \in DOMAIN d THEN d ELSE Put(d, subdir, EmptyDir)

----------------------------------------------------------------------------
(* voices.py: the intro and outro segments *)

\* the segments in which a character (not narrator, not unknown) appears
\* for the first time, in story order
RECURSIVE unique_characters(_, _, _)
unique_characters(segs, i, seen) ==
    IF i > Len(segs) THEN <<>>
    ELSE LET speaker == lower(segs[i].speaker) IN
         IF speaker \in {"narrator", "unknown"} \/ speaker \in seen
         THEN unique_characters(segs, i + 1, seen)
         ELSE <<segs[i]>> \o unique_characters(segs, i + 1, seen \cup {speaker})

\* the first cast entry whose lowercased name is the lowercased speaker
\* (0 without such an entry)
RECURSIVE entry_of(_, _, _)
entry_of(cast_entries, speaker, i) ==
    IF i > Len(cast_entries) THEN 0
    ELSE IF lower(cast_entries[i].name) = lower(speaker) THEN i
    ELSE entry_of(cast_entries, speaker, i + 1)

description_of(cast_entries, speaker) ==
    LET i == entry_of(cast_entries, speaker, 1) IN
    IF i = 0 THEN "" ELSE Get(cast_entries[i].info, "description", "")

RECURSIVE intro_characters(_, _, _, _)
intro_characters(characters, cast_entries, narrator_voice, i) ==
    IF i > Len(characters) THEN <<>>
    ELSE LET speaker_name == characters[i].speaker
             voice        == characters[i].voice
             description  == description_of(cast_entries, speaker_name)
         IN  << Segment("dialogue", title_case(speaker_name) \o ",",
                        lower(speaker_name), voice),
                Segment("narration",
                        IF description # ""
                        THEN description \o ", using " \o voice \o "."
                        ELSE "using " \o voice \o ".",
                        "narrator", narrator_voice) >>
             \o intro_characters(characters, cast_entries, narrator_voice, i + 1)

generate_intro_segments(title, author, segs, c) ==
    LET narrator_voice == Get(c.narrator, "voice", NARRATOR_VOICE)
        characters     == unique_characters(segs, 1, {})
        narrator_desc  == Get(c.narrator, "description", "")
    IN  << Segment("narration", "This is " \o title \o ", by " \o author \o ".",
                   "narrator", narrator_voice) >>
        \o (IF characters # <<>>
            THEN << Segment("narration", "The characters will be...",
                            "narrator", narrator_voice) >>
                 \o intro_characters(characters, c.cast, narrator_voice, 1)
            ELSE <<>>)
        \o << Segment("narration",
                      IF narrator_desc # ""
                      THEN "And your narrator, " \o narrator_desc \o ", using "
                           \o narrator_voice \o "."
                      ELSE "And your narrator, using " \o narrator_voice \o ".",
                      "narrator", narrator_voice) >>

\* generate_outro_segments, lines 233-238: the voice of the first narrator
\* narration segment that has one
RECURSIVE outro_narrator_voice(_, _)
outro_narrator_voice(segs, i) ==
    IF i > Len(segs) THEN NARRATOR_VOICE
    ELSE IF segs[i].speaker = "narrator" /\ segs[i].type = "narration"
            /\ segs[i].voice # ""
         THEN segs[i].voice
         ELSE outro_narrator_voice(segs, i + 1)

\* ", ".join(names)
RECURSIVE join(_, _)
join(names, i) ==
    IF i > Len(names) THEN ""
    ELSE IF i = Len(names) THEN names[i]
    ELSE names[i] \o ", " \o join(names, i + 1)

char_list(char_names) ==
    IF Len(char_names) = 1 THEN char_names[1]
    ELSE IF Len(char_names) = 2 THEN char_names[1] \o " and " \o char_names[2]
    ELSE join(SubSeq(char_names, 1, Len(char_names) - 1), 1)
         \o ", and " \o char_names[Len(char_names)]

generate_outro_segments(title, author, segs) ==
    LET narrator_voice == outro_narrator_voice(segs, 1)
        characters     == unique_characters(segs, 1, {})
        char_names     == [i \in 1..Len(characters) |->
                              title_case(characters[i].speaker)]
    IN  << Segment("narration",
                   "This has been a production of " \o title \o ", by "
                   \o author \o ",", "narrator", narrator_voice) >>
        \o (IF char_names # <<>>
            THEN << Segment("narration", "with " \o char_list(char_names) \o ".",
                            "narrator", narrator_voice) >>
            ELSE <<>>)
        \o << Segment("narration", "Thank you for listening.",
                      "narrator", narrator_voice) >>

----------------------------------------------------------------------------
(* tts.py *)

\* an audio file synthesized with a voice and not yet processed, and the
\* zero-byte file a failed synthesis can leave
Audio(voice) == [size |-> 1, voice |-> voice, fx |-> 0]
ZeroFile == [size |-> 0, voice |-> "", fx |-> 0]

\* where the speech service fails in a command, if anywhere: at the
\* synthesis call numbered "at" of the step, leaving nothing ("raise") or a
\* zero-byte file ("zero") after the last attempt
NoFail == [step |-> "none", at |-> 0, kind |-> "raise"]

\* generate_single(text, voice, output_path) in directory d: returns with
\* the audio in place, or raises after the last attempt
generate_single(d, f, voice, fails, kind) ==
    IF fails
    THEN [dir |-> IF kind = "zero" THEN Put(d, f, ZeroFile) ELSE d,
          raised |-> TRUE]
    ELSE [dir |-> Put(d, f, Audio(voice)), raised |-> FALSE]

\* _segment_filename(index, segment), as <<stem, extension>>
segment_filename(index, seg) ==
    << idx3(index) \o "_" \o seg.type \o "_" \o speaker_slug(seg.speaker), "mp3" >>

\* a faulty variant: an existing file is synthesized again
tts_skip_never(d, f) == FALSE

\* generate_tts, line 61: skip if already exists (resumability)
tts_skip(d, f) == f \in DOMAIN d /\ d[f].size > 0

\* generate_tts, lines 56-69: the loop from index i on; synth collects the
\* indexes generate_single was called for
RECURSIVE generate_tts_from(_, _, _, _, _)
generate_tts_from(segs, d, i, fail, synth) ==
    IF i >= Len(segs) THEN [dir |-> d, raised |-> FALSE, synth |-> synth]
    ELSE LET seg == segs[i + 1]
             filename == segment_filename(i, seg)
         IN  IF tts_skip(d, filename)
             THEN generate_tts_from(segs, d, i + 1, fail, synth)
             ELSE LET r == generate_single(d, filename, seg.voice,
                                           fail.step = "tts" /\ fail.at = i,
                                           fail.kind)
                  IN  IF r.raised
                      THEN [dir |-> r.dir, raised |-> TRUE,
                            synth |-> synth \cup {i}]
                      ELSE generate_tts_from(segs, r.dir, i + 1, fail,
                                             synth \cup {i})

generate_tts(segs, d, fail) == generate_tts_from(segs, d, 0, fail, {})

----------------------------------------------------------------------------
(* artifacts.py: generate_voice_demos, generate_preview; music.py; exporter.py *)

\* generate_voice_demos, lines 203-208: speaker -> voice, narrator first
RECURSIVE demo_characters(_, _, _)
demo_characters(chars, acc, i) ==
    IF i > Len(chars) THEN acc
    ELSE demo_characters(chars,
                         PutEntry(acc, chars[i].name,
                                  Get(chars[i].info, "voice", "")),
                         i + 1)

\* generate_voice_demos, lines 211-215: the first dialogue line of a speaker
first_line(segs, speaker) ==
    LET lines == {i \in 1..Len(segs) :
                    lower(segs[i].speaker) = speaker /\ segs[i].type = "dialogue"}
    IN  IF lines = {} THEN None
        ELSE segs[CHOOSE i \in lines : \A j \in lines : i <= j].text

\* generate_voice_demos, lines 217-235: the loop from character k on; the
\* synthesis calls of character k are numbered 2(k-1) and 2(k-1)+1
RECURSIVE voice_demos_from(_, _, _, _, _)
voice_demos_from(characters, segs, d, k, fail) ==
    IF k > Len(characters) THEN [dir |-> d, raised |-> FALSE]
    ELSE LET speaker == characters[k].name
             voice   == characters[k].info
         IN  IF ~Truthy(voice)
             THEN voice_demos_from(characters, segs, d, k + 1, fail)
             ELSE
             LET pangram_path == <<speaker_slug(speaker) \o "_pangram", "mp3">>
                 story_path   == <<speaker_slug(speaker) \o "_story", "mp3">>
                 story_line   == first_line(segs, lower(speaker))
                 p == IF pangram_path \in DOMAIN d
                      THEN [dir |-> d, raised |-> FALSE]
                      ELSE generate_single(d, pangram_path, voice,
                               fail.step = "demos" /\ fail.at = 2 * (k - 1),
                               fail.kind)
                 s == IF ~Truthy(story_line) \/ story_path \in DOMAIN p.dir
                      THEN p
                      ELSE generate_single(p.dir, story_path, voice,
                               fail.step = "demos" /\ fail.at = 2 * (k - 1) + 1,
                               fail.kind)
             IN  IF p.raised THEN p
                 ELSE IF s.raised THEN s
                 ELSE voice_demos_from(characters, segs, s.dir, k + 1, fail)

generate_voice_demos(d, cast_data, segs, fail) ==
    LET d1 == makedirs(d, "voice_demos")
        narrator_voice ==
            Get(Get(cast_data, "narrator", EmptyDict), "voice", "en-US-GuyNeural")
        characters ==
            demo_characters(Get(cast_data, "characters", <<>>),
                            <<[name |-> "narrator", info |-> narrator_voice]>>, 1)
        r == voice_demos_from(characters, segs, d1["voice_demos"], 1, fail)
    IN  [dirs |-> Put(d1, "voice_demos", r.dir), raised |-> r.raised]

\* generate_preview: writes samples/preview_60s.mp3
generate_preview(d) ==
    LET d1 == makedirs(d, "samples") IN
    Put(d1, "samples", Put(d1["samples"], <<"preview_60s", "mp3">>, [size |-> 1]))

\* export: writes final/<slug>.mp3 and final/output.json
export(d, slug, cast_data, settings) ==
    LET d1 == makedirs(d, "final") IN
    Put(d1, "final",
        Put(Put(d1["final"], <<slug, "mp3">>, [size |-> 1]),
            <<"output", "json">>,
            [size |-> 1, cast |-> cast_data, settings |-> settings]))

\* the background track of a project: what it was made from
Track(source) == [size |-> 1, track |-> source]

\* music._read_provenance
read_provenance(j) ==
    IF "direction.json" \in DOMAIN j
       /\ Truthy(Get(j["direction.json"], "music_source", None))
    THEN j["direction.json"]["music_source"]
    ELSE "existing"

\* music.generate_music(project_dir), as [dirs, source]; bundled says
\* whether demo/music/<slug>.mp3 exists
generate_music(j, d, slug, bundled) ==
    LET d1 == makedirs(d, "music")
        bg == <<"background", "mp3">>
    IN  IF bg \in DOMAIN d1["music"] /\ d1["music"][bg].size > 0
        THEN [dirs |-> d1, source |-> read_provenance(j)]
        ELSE LET source == IF bundled THEN "bundled:" \o slug \o ".mp3"
                           ELSE "procedural"
             IN  [dirs |-> Put(d1, "music", Put(d1["music"], bg, Track(source))),
                  source |-> source]

----------------------------------------------------------------------------
(* cli.py: cmd_new *)

\* the one project of the model, output/<slug>
slug == "story"

\* _get_project_dir raises SystemExit: no project directory, or one
\* without script.json
project_missing(j, d) ==
    \/ (j = EmptyDict /\ d = EmptyDict)
    \/ "script.json" \notin DOMAIN j

\* load_artifact(project_dir, filename) or default
load_artifact(j, filename, default) ==
    IF filename \in DOMAIN j /\ j[filename] # EmptyDict
    THEN j[filename] ELSE default

\* init_output_dir: every subdirectory exists afterwards
init_output_dir(d) ==
    [c \in DOMAIN d \cup Range(subdirs) |->
        IF c \in DOMAIN d THEN d[c] ELSE EmptyDir]

\* _build_cast_data, lines 191-205: the "characters" dict
RECURSIVE build_characters(_, _, _, _)
build_characters(firsts, cast_entries, acc, i) ==
    IF i > Len(firsts) THEN acc
    ELSE LET speaker == lower(firsts[i].speaker)
             e == entry_of(cast_entries, speaker, 1)
             voiced == [voice |-> firsts[i].voice]
             char_info ==
                 IF e = 0 THEN Put(voiced, "source", "hash")
                 ELSE LET description ==
                              Get(cast_entries[e].info, "description", "")
                      IN  Put(IF description # ""
                              THEN Put(voiced, "description", description)
                              ELSE voiced,
                              "source", "cast_file")
         IN  build_characters(firsts, cast_entries,
                              PutEntry(acc, speaker, char_info), i + 1)

build_cast_data(segs, c) ==
    LET narrator ==
            [voice |-> Get(c.narrator, "voice", NARRATOR_VOICE),
             dialogue_voice |->
                 Get(c.narrator, "dialogue_voice", NARRATOR_DIALOGUE_VOICE)]
        description == Get(c.narrator, "description", "")
    IN  [narrator |-> IF description # ""
                      THEN Put(narrator, "description", description)
                      ELSE narrator,
         characters |-> build_characters(unique_characters(segs, 1, {}),
                                         c.cast, <<>>, 1)]

\* constants.py; a number of the settings is the string that writes it
MUSIC_BED_DB == "-25"
REVERB_ROOM_SIZE == "0.3"
REVERB_WET_LEVEL == "0.15"

default_reverb ==
    [room_size |-> REVERB_ROOM_SIZE, wet_level |-> REVERB_WET_LEVEL]

\* cmd_new, lines 139-152 and 155-162
default_direction ==
    [intro_music_solo_ms |-> "4000", outro_music_solo_ms |-> "4000",
     music_bed_db |-> MUSIC_BED_DB, music_fade_ms |-> "2000",
     no_music |-> FALSE, music_source |-> None]

default_effects ==
    [global |-> [normalize |-> TRUE, target_dbfs |-> "-20"],
     per_segment |-> [dialogue |-> [reverb |-> default_reverb],
                      narration |-> [reverb |-> JsonNull]]]

\* what a command returns to the actions below
Result(outcome, j, d) == [outcome |-> outcome, json |-> j, dirs |-> d]

\* cmd_new, lines 106-114: the segment lists cmd_new holds in memory
new_script(file) ==
    LET segs == assign_voices(file.segments, file.sidecar)
    IN  [segments |-> segs,
         intro_segments |->
             generate_intro_segments(file.title, file.author, segs,
                                     file.sidecar),
         outro_segments |->
             generate_outro_segments(file.title, file.author, segs)]

\* cmd_new, lines 74-102: the error cmd_new prints before it exits, "" if
\* it goes on
new_error(j, file) ==
    IF ~file.exists THEN "File not found"
    ELSE IF strip(file.text) = "" THEN "File is empty"
    ELSE IF "script.json" \in DOMAIN j THEN "Project already exists"
    ELSE IF file.segments = <<>> THEN "Could not parse any segments"
    ELSE ""

\* cmd_new, lines 104-162: the project directory and its four artifacts
new_project(j, d, file) ==
    LET m     == new_script(file)
        segs  == m.segments
        intro == m.intro_segments
        outro == m.outro_segments
        script_data ==
            [metadata |-> [title |-> file.title, author |-> file.author],
             source |-> file.path,
             segments |-> [i \in 1..Len(segs) |->
                             [type |-> segs[i].type, text |-> segs[i].text,
                              speaker |-> segs[i].speaker]],
             intro_segments |-> intro,
             outro_segments |-> outro]
        j1 == Put(j, "script.json", script_data)
        j2 == Put(j1, "cast.json", build_cast_data(segs, file.sidecar))
        j3 == Put(j2, "direction.json", default_direction)
        j4 == Put(j3, "effects.json", default_effects)
    IN  Result("ok", j4, init_output_dir(d))

\* a faulty variant: the project directory is made before the segments are
\* looked at
cmd_new_init_first(j, d, file) ==
    IF new_error(j, file) = "" THEN new_project(j, d, file)
    ELSE IF new_error(j, file) = "Could not parse any segments"
    THEN Result("exit", j, init_output_dir(d))
    ELSE Result("exit", j, d)

\* cmd_new(args) for a story file as the file system and the parser give it
cmd_new(j, d, file) ==
    IF new_error(j, file) = "" THEN new_project(j, d, file)
    ELSE Result("exit", j, d)

----------------------------------------------------------------------------
(* cli.py: cmd_set *)

valid_keys ==
    {"voice", "narrator-voice", "narrator-dialogue", "music", "music-file",
     "music-db", "reverb", "reverb-room", "reverb-wet"}

no_cast == [narrator |-> EmptyDict, characters |-> <<>>]

\* os.path.basename on the paths the model uses
basename(path) == path

\* effects["per_segment"]["dialogue"], with setdefault at both levels
dialogue_of(effects) ==
    Get(Get(effects, "per_segment", EmptyDict), "dialogue", EmptyDict)

with_dialogue(effects, dialogue) ==
    Put(effects, "per_segment",
        Put(Get(effects, "per_segment", EmptyDict), "dialogue", dialogue))

\* cmd_set, lines 492-526: voice, narrator-voice, narrator-dialogue
set_voice(j, d, key, values) ==
    LET cast_data == load_artifact(j, "cast.json", no_cast) IN
    IF key = "voice"
    THEN IF Len(values) < 2 THEN Result("exit", j, d)
         ELSE LET speaker  == lower(values[1])
                  voice_id == values[2]
                  chars    == Get(cast_data, "characters", <<>>)
                  added    == IF speaker \in Names(chars) THEN chars
                              ELSE PutEntry(chars, speaker, EmptyDict)
                  info     == Put(Lookup(added, speaker), "voice", voice_id)
              IN  Result("ok",
                         Put(j, "cast.json",
                             Put(cast_data, "characters",
                                 PutEntry(added, speaker, info))),
                         d)
    ELSE IF values = <<>> THEN Result("exit", j, d)
         ELSE LET field == IF key = "narrator-voice" THEN "voice"
                           ELSE "dialogue_voice"
                  narrator == Get(cast_data, "narrator", EmptyDict)
              IN  Result("ok",
                         Put(j, "cast.json",
                             Put(cast_data, "narrator",
                                 Put(narrator, field, values[1]))),
                         d)

\* cmd_set, lines 528-570: music, music-file, music-db
set_music(j, d, key, values, files) ==
    LET direction == load_artifact(j, "direction.json", EmptyDict) IN
    IF key = "music"
    THEN IF values = <<>> \/ values[1] \notin {"on", "off"}
         THEN Result("exit", j, d)
         ELSE Result("ok",
                     Put(j, "direction.json",
                         Put(direction, "no_music", values[1] = "off")),
                     d)
    ELSE IF key = "music-file"
    THEN IF values = <<>> THEN Result("exit", j, d)
         ELSE IF values[1] \notin DOMAIN files THEN Result("exit", j, d)
         ELSE LET d1 == makedirs(d, "music") IN
              IF files[values[1]] # "audio" THEN Result("exit", j, d1)
              ELSE LET source == "user:" \o basename(values[1]) IN
                   Result("ok",
                          Put(j, "direction.json",
                              Put(direction, "music_source", source)),
                          Put(d1, "music",
                              Put(d1["music"], <<"background", "mp3">>,
                                  Track(source))))
    ELSE IF values = <<>> THEN Result("exit", j, d)
         ELSE IF float(values[1]) = "ValueError" THEN Result("exit", j, d)
         ELSE Result("ok",
                     Put(j, "direction.json",
                         Put(direction, "music_bed_db", float(values[1]))),
                     d)

\* cmd_set, lines 572-624: reverb, reverb-room, reverb-wet
set_reverb(j, d, key, values) ==
    IF key = "reverb"
    THEN IF values = <<>> \/ values[1] \notin {"on", "off"}
         THEN Result("exit", j, d)
         ELSE LET effects ==
                      load_artifact(j, "effects.json",
                          [default_effects EXCEPT
                              !.per_segment.dialogue = EmptyDict])
                  reverb == IF values[1] = "on" THEN default_reverb
                            ELSE JsonNull
              IN  Result("ok",
                         Put(j, "effects.json",
                             with_dialogue(effects,
                                 Put(dialogue_of(effects), "reverb", reverb))),
                         d)
    ELSE IF values = <<>> THEN Result("exit", j, d)
         ELSE IF float(values[1]) = "ValueError" THEN Result("exit", j, d)
         ELSE LET effects ==
                      load_artifact(j, "effects.json",
                          [default_effects EXCEPT
                              !.per_segment.dialogue.reverb = EmptyDict])
                  reverb == Get(dialogue_of(effects), "reverb", EmptyDict)
                  field  == IF key = "reverb-room" THEN "room_size"
                            ELSE "wet_level"
              IN  \* None["room_size"] = val is a TypeError
                  IF reverb = JsonNull THEN Result("raise", j, d)
                  ELSE Result("ok",
                              Put(j, "effects.json",
                                  with_dialogue(effects,
                                      Put(dialogue_of(effects), "reverb",
                                          Put(reverb, field,
                                              float(values[1]))))),
                              d)

\* a faulty variant: installing a music file invalidates nothing
set_invalidate_not_music_file(d, key) ==
    IF key = "music-file" THEN d ELSE invalidate_downstream(d, key).dirs

\* cmd_set, lines 626-629: invalidate downstream artifacts
set_invalidate(d, key) == invalidate_downstream(d, key).dirs

\* a faulty variant: the downstream artifacts are invalidated whether or not
\* the value was accepted
cmd_set_always_invalidating(j, d, key, values, files) ==
    IF project_missing(j, d) THEN Result("exit", j, d)
    ELSE IF key \notin valid_keys THEN Result("exit", j, d)
    ELSE LET r == IF key \in {"voice", "narrator-voice", "narrator-dialogue"}
                  THEN set_voice(j, d, key, values)
                  ELSE IF key \in {"music", "music-file", "music-db"}
                  THEN set_music(j, d, key, values, files)
                  ELSE set_reverb(j, d, key, values)
         IN  Result(r.outcome, r.json, set_invalidate(r.dirs, key))

\* cmd_set(args); files is what the music-file paths name
cmd_set(j, d, key, values, files) ==
    IF project_missing(j, d) THEN Result("exit", j, d)
    ELSE IF key \notin valid_keys THEN Result("exit", j, d)
    ELSE LET r == IF key \in {"voice", "narrator-voice", "narrator-dialogue"}
                  THEN set_voice(j, d, key, values)
                  ELSE IF key \in {"music", "music-file", "music-db"}
                  THEN set_music(j, d, key, values, files)
                  ELSE set_reverb(j, d, key, values)
         IN  IF r.outcome = "ok"
             THEN Result("ok", r.json, set_invalidate(r.dirs, key))
             ELSE r

----------------------------------------------------------------------------
(* cli.py: cmd_run *)

\* _reconstruct_cast(cast_data)
reconstruct_cast(cast_data) ==
    [narrator |-> Get(cast_data, "narrator", EmptyDict),
     cast     |-> Get(cast_data, "characters", <<>>)]

\* what cmd_run reports besides its outcome: whether the TTS step was
\* skipped, the indexes whose audio existed with non-zero size when the step
\* began, the indexes generate_single was called for, and the segment lists
\* it read (added by cmd_run below)
RunResult(outcome, j, d, tts_skipped, present, synth) ==
    [outcome |-> outcome, json |-> j, dirs |-> d,
     tts_skipped |-> tts_skipped, present |-> present, synth |-> synth,
     script |-> NoScript]

\* cmd_run, lines 250-256: --force removes what is in every subdirectory
force_clear(d) == [c \in DOMAIN d |-> IF c \in Range(subdirs) THEN EmptyDir ELSE d[c]]

\* cmd_run, lines 259-275: the voice demos of a verbose run
cast_fresh(j) ==
    LET cast_json == IF "cast.json" \in DOMAIN j THEN FilePath(0) ELSE AbsentPath
    IN  check_step_fresh("voices", cast_json, <<cast_json>>)

run_voice_demos(j, d, cast_data, segs, x) ==
    LET existing_demos ==
            IF "voice_demos" \in DOMAIN d
            THEN Cardinality({f \in DOMAIN d["voice_demos"] : IsMp3(f)})
            ELSE 0
    IN  IF ~x.verbose THEN [dirs |-> d, raised |-> FALSE]
        ELSE IF ~cast_fresh(j) \/ existing_demos = 0 \/ x.force
        THEN generate_voice_demos(d, cast_data, segs, x.fail)
        ELSE [dirs |-> d, raised |-> FALSE]

\* cmd_run, lines 354-416: assembly, preview and export
run_export(j, d, x, cast_data, settings) ==
    RunResult("ok", j, export(generate_preview(d), slug, cast_data, settings),
              x.tts_skipped, x.present, x.synth)

\* cmd_run, lines 330-352: the music step
run_music(j, d, x, cast_data, reverb) ==
    LET direction == load_artifact(j, "direction.json", EmptyDict)
        loaded    == direction # EmptyDict
        no_music  == IF loaded THEN Get(direction, "no_music", FALSE) ELSE FALSE
        bg_exists == "music" \in DOMAIN d
                     /\ <<"background", "mp3">> \in DOMAIN d["music"]
        generated == generate_music(j, d, slug, x.bundled)
        music_source ==
            IF no_music THEN None
            ELSE IF bg_exists /\ ~x.force
            THEN IF loaded /\ Truthy(Get(direction, "music_source", None))
                 THEN direction["music_source"] ELSE None
            ELSE generated.source
        d1 == IF no_music \/ (bg_exists /\ ~x.force) THEN d ELSE generated.dirs
        j1 == IF ~no_music /\ Truthy(music_source) /\ loaded
              THEN Put(j, "direction.json",
                       Put(direction, "music_source", music_source))
              ELSE j
        settings ==
            [music |-> ~no_music, music_source |-> music_source,
             music_bed_db |-> IF loaded
                              THEN Get(direction, "music_bed_db", MUSIC_BED_DB)
                              ELSE MUSIC_BED_DB,
             reverb |-> reverb, bitrate |-> "192k"]
    IN  run_export(j1, d1, x, cast_data, settings)

\* cmd_run, lines 289-328: the effects step; the files of segments/ in
\* sorted order are those of the segments in index order
seg_files(segdir, all_segments) ==
    SelectSeq([i \in 1..Len(all_segments) |->
                  segment_filename(i - 1, all_segments[i])],
              LAMBDA f : f \in DOMAIN segdir)

run_effects(j, d, x, cast_data, all_segments) ==
    LET segdir  == d["segments"]
        files   == seg_files(segdir, all_segments)
        effects_config == load_artifact(j, "effects.json", EmptyDict)
        reverb_cfg == Get(dialogue_of(effects_config), "reverb", JsonNull)
        reverb ==
            IF effects_config = EmptyDict
            THEN [on |-> TRUE, room_size |-> REVERB_ROOM_SIZE,
                  wet_level |-> REVERB_WET_LEVEL]
            ELSE [on |-> reverb_cfg # JsonNull,
                  room_size |->
                      IF reverb_cfg \in {JsonNull, EmptyDict}
                      THEN REVERB_ROOM_SIZE
                      ELSE Get(reverb_cfg, "room_size", REVERB_ROOM_SIZE),
                  wet_level |->
                      IF reverb_cfg \in {JsonNull, EmptyDict}
                      THEN REVERB_WET_LEVEL
                      ELSE Get(reverb_cfg, "wet_level", REVERB_WET_LEVEL)]
        processed ==
            [f \in DOMAIN segdir |->
                IF f \in Range(files)
                THEN [segdir[f] EXCEPT !.fx = @ + 1] ELSE segdir[f]]
    IN  \* AudioSegment.from_mp3 raises on a file without audio
        IF \E f \in Range(files) : segdir[f].size = 0
        THEN RunResult("raise", j, d, x.tts_skipped, x.present, x.synth)
        ELSE run_music(j, Put(d, "segments", processed), x, cast_data, reverb)

\* cmd_run, line 282
run_tts_skips(existing_mp3s, total, force) == existing_mp3s >= total /\ ~force

\* cmd_run, lines 277-287: the TTS step
run_tts(j, d, x, cast_data, all_segments) ==
    LET d1 == makedirs(d, "segments")
        segdir == d1["segments"]
        existing_mp3s == Cardinality({f \in DOMAIN segdir : IsMp3(f)})
        present ==
            {i \in 0..(Len(all_segments) - 1) :
                LET f == segment_filename(i, all_segments[i + 1])
                IN  f \in DOMAIN segdir /\ segdir[f].size > 0}
        t == generate_tts(all_segments, segdir, x.fail)
    IN  IF run_tts_skips(existing_mp3s, Len(all_segments), x.force)
        THEN run_effects(j, d1,
                         [x EXCEPT !.tts_skipped = TRUE, !.present = present],
                         cast_data, all_segments)
        ELSE IF t.raised
        THEN RunResult("raise", j, Put(d1, "segments", t.dir),
                       FALSE, present, t.synth)
        ELSE run_effects(j, Put(d1, "segments", t.dir),
                         [x EXCEPT !.present = present, !.synth = t.synth],
                         cast_data, all_segments)

\* cmd_run, lines 232-246: the segment lists read back from script.json,
\* the story segments voiced again from cast.json
run_script(script, cast_data) ==
    [segments |->
        assign_voices(
            [i \in 1..Len(script["segments"]) |->
                Segment(script["segments"][i].type,
                        script["segments"][i].text,
                        script["segments"][i].speaker, "")],
            reconstruct_cast(cast_data)),
     intro_segments |->
        [i \in 1..Len(Get(script, "intro_segments", <<>>)) |->
            Segment(script["intro_segments"][i].type,
                    script["intro_segments"][i].text,
                    script["intro_segments"][i].speaker,
                    script["intro_segments"][i].voice)],
     outro_segments |->
        [i \in 1..Len(Get(script, "outro_segments", <<>>)) |->
            Segment(script["outro_segments"][i].type,
                    script["outro_segments"][i].text,
                    script["outro_segments"][i].speaker,
                    script["outro_segments"][i].voice)]]

\* cmd_run(args); fail is where the speech service (or the search for
\* ffmpeg) fails, bundled whether bundled music exists for the slug
cmd_run(j, d, force, verbose, fail, bundled) ==
    LET x == [force |-> force, verbose |-> verbose, fail |-> fail,
              bundled |-> bundled, tts_skipped |-> FALSE,
              present |-> {}, synth |-> {}]
        quit == RunResult("exit", j, d, FALSE, {}, {})
    IN
    IF fail.step = "ffmpeg" THEN quit
    ELSE IF project_missing(j, d) THEN quit
    ELSE IF load_artifact(j, "script.json", EmptyDict) = EmptyDict
            \/ load_artifact(j, "cast.json", EmptyDict) = EmptyDict
    THEN quit
    ELSE
    LET cast_data == j["cast.json"] IN
    \* the segments are read once, into m
    CHOOSE result \in
        { LET segs == m.segments
              all_segments == m.intro_segments \o segs \o m.outro_segments
              d1    == IF force THEN force_clear(d) ELSE d
              demos == run_voice_demos(j, d1, cast_data, segs, x)
          IN  [(IF demos.raised
                THEN RunResult("raise", j, demos.dirs, FALSE, {}, {})
                ELSE run_tts(j, demos.dirs, x, cast_data, all_segments))
               EXCEPT !.script = m]
          : m \in {run_script(j["script.json"], cast_data)} } : TRUE

----------------------------------------------------------------------------
(* The commands on one project: new, set and run in any order *)

\* the most commands given to the program in one behaviour
MaxCmds == 4

NoSidecar == [narrator |-> EmptyDict, cast |-> <<>>]

NieceSidecar ==
    [narrator |-> [voice |-> "en-GB-ThomasNeural"],
     cast |-> << [name |-> "The Niece",
                  info |-> [voice |-> "en-US-AriaNeural",
                            aliases |-> {"The Child"},
                            description |-> "a girl of fifteen"]] >>]

\* a story file: what os.path.exists, read, extract_metadata, parse_story
\* and load_cast give for it
StoryFile(exists, text, segs, sidecar) ==
    [path |-> "story.txt", exists |-> exists, text |-> text,
     title |-> "The Story", author |-> "An Author",
     segments |-> segs, sidecar |-> sidecar]

AliceStory ==
    StoryFile(TRUE, "It was dark. Hello, said Alice.",
              << Segment("narration", "It was dark.", "narrator", ""),
                 Segment("dialogue", "Hello.", "alice", "") >>,
              NoSidecar)

ChildStory ==
    StoryFile(TRUE, "Who is there? Nobody.",
              << Segment("dialogue", "Who is there?", "the child", ""),
                 Segment("dialogue", "Nobody.", "unknown", "") >>,
              NieceSidecar)

\* a character without a cast entry and a quote nobody is credited with
StrangerStory ==
    StoryFile(TRUE, "Hello, said Alice. Who?",
              << Segment("dialogue", "Hello.", "alice", ""),
                 Segment("dialogue", "Who?", "unknown", "") >>,
              NoSidecar)

FileChoices ==
    { StoryFile(FALSE, "", <<>>, NoSidecar),
      StoryFile(TRUE, "  ", <<>>, NoSidecar),
      StoryFile(TRUE, "***", <<>>, NoSidecar),
      AliceStory }

\* the files a music-file path can name
MusicFiles ==
    [p \in {"track.mp3", "noise.mp3"} |->
        IF p = "track.mp3" THEN "audio" ELSE "garbage"]

\* the arguments of set: accepted ones and one rejected one for each check
SetChoices ==
    { <<"voice", <<"Alice", "en-US-JennyNeural">> >>,
      <<"voice", <<"alice">> >>,
      <<"narrator-voice", <<"en-US-DavisNeural">> >>,
      <<"narrator-voice", <<>> >>,
      <<"narrator-dialogue", <<"en-GB-SoniaNeural">> >>,
      <<"music", <<"on">> >>,
      <<"music", <<"off">> >>,
      <<"music", <<"loud">> >>,
      <<"music-file", <<"track.mp3">> >>,
      <<"music-file", <<"noise.mp3">> >>,
      <<"music-file", <<"gone.mp3">> >>,
      <<"music-db", <<"-18">> >>,
      <<"music-db", <<"loud">> >>,
      <<"reverb", <<"on">> >>,
      <<"reverb", <<"off">> >>,
      <<"reverb-room", <<"0.5">> >>,
      <<"reverb-room", <<"big">> >>,
      <<"reverb-wet", <<"0.4">> >>,
      <<"bitrate", <<"128k">> >> }

Fail(step, at, kind) == [step |-> step, at |-> at, kind |-> kind]

\* the options and the environment of run, as <<force, verbose, fail,
\* bundled>>: every combination of the options without a failure, and one
\* run for each other answer of the environment
RunChoices ==
    { <<force, verbose, NoFail, FALSE>> : force, verbose \in BOOLEAN }
    \cup { <<TRUE, FALSE, NoFail, TRUE>>,
           <<FALSE, FALSE, Fail("ffmpeg", 0, "raise"), FALSE>>,
           <<FALSE, TRUE, Fail("demos", 0, "zero"), FALSE>> }

Init ==
    /\ UnitsIdle
    /\ VoicesIdle
    /\ FreshIdle
    /\ StoreIdle

\* what the ghost keeps of a command: its arguments only if it succeeded
\* (of a new command, in key, the error it printed)
Report(cmd, outcome, report) ==
    IF outcome = "ok"
    THEN [report EXCEPT !.cmd = cmd, !.outcome = outcome, !.clean = hist.clean]
    ELSE [NoCmd EXCEPT !.cmd = cmd, !.outcome = outcome, !.clean = hist.clean,
                       !.force = report.force, !.script = report.script,
                       !.tts_skipped = report.tts_skipped,
                       !.present = report.present, !.synth = report.synth]

\* producer.py new <file>
CmdNew(file) ==
    \E r \in {cmd_new(json, dirs, file)} :
    /\ json' = r.json
    /\ dirs' = r.dirs
    /\ last' = [Report("new", r.outcome, NoCmd)
                    EXCEPT !.key = new_error(json, file)]
    /\ hist' = [hist EXCEPT !.cmds = @ + 1,
                            !.new = IF r.outcome = "ok"
                                    THEN new_script(file) ELSE @]
    /\ UNCHANGED <<voiceVars, freshVars, invVars, status, unitVars>>

\* producer.py set <slug> <key> <values>
CmdSet(key, values) ==
    \E r \in {cmd_set(json, dirs, key, values, MusicFiles)} :
    /\ json' = r.json
    /\ dirs' = r.dirs
    /\ last' = Report("set", r.outcome,
                      [NoCmd EXCEPT !.key = key, !.values = values])
    /\ hist' = [hist EXCEPT !.clean = FALSE, !.cmds = @ + 1,
                            !.set = @ \/ r.outcome # "exit"]
    /\ UNCHANGED <<voiceVars, freshVars, invVars, status, unitVars>>

\* producer.py run <slug> [--force] [-v]
CmdRun(force, verbose, fail, bundled) ==
    \E r \in {cmd_run(json, dirs, force, verbose, fail, bundled)} :
    /\ json' = r.json
    /\ dirs' = r.dirs
    /\ last' = Report("run", r.outcome,
                      [NoCmd EXCEPT !.force = force,
                                    !.tts_skipped = r.tts_skipped,
                                    !.present = r.present, !.synth = r.synth,
                                    !.script = r.script])
    /\ hist' = [hist EXCEPT !.clean = r.outcome = "ok", !.cmds = @ + 1]
    /\ UNCHANGED <<voiceVars, freshVars, invVars, status, unitVars>>

Next ==
    /\ hist.cmds < MaxCmds
    /\ \/ \E file \in FileChoices : CmdNew(file)
       \/ \E s \in SetChoices : CmdSet(s[1], s[2])
       \/ \E r \in RunChoices : CmdRun(r[1], r[2], r[3], r[4])

Spec == Init /\ [][Next]_vars

----------------------------------------------------------------------------
(* Runs that the speech service interrupts, resumed by later runs *)

\* the most commands given to the program in one behaviour
MaxResumeCmds == 6

ResumeFileChoices == {AliceStory, ChildStory, StrangerStory}

\* one setting that invalidates segments/ and one that does not
ResumeSetChoices ==
    { <<"voice", <<"Alice", "en-US-JennyNeural">> >>,
      <<"music-db", <<"-18">> >> }

\* the synthesis calls of the TTS step at which the service may fail: the
\* first intro segment, the first story segment, the last outro segment
tts_fail_at(j) ==
    IF "script.json" \in DOMAIN j
    THEN {0, Len(j["script.json"]["intro_segments"]),
          Len(j["script.json"]["intro_segments"])
          + Len(j["script.json"]["segments"])
          + Len(j["script.json"]["outro_segments"]) - 1}
    ELSE {}

ResumeRunChoices(j) ==
    { <<force, FALSE, fail, FALSE>> :
        force \in BOOLEAN,
        fail \in {NoFail}
                 \cup {Fail("tts", at, kind) :
                         at \in tts_fail_at(j), kind \in {"raise", "zero"}} }

NextResume ==
    /\ hist.cmds < MaxResumeCmds
    /\ \/ \E file \in ResumeFileChoices : CmdNew(file)
       \/ \E s \in ResumeSetChoices : CmdSet(s[1], s[2])
       \/ \E r \in ResumeRunChoices(json) : CmdRun(r[1], r[2], r[3], r[4])

SpecResume == Init /\ [][NextResume]_vars

----------------------------------------------------------------------------
(* parser.py: _split_long_segment *)

SEGMENT_SPLIT_THRESHOLD == 500

\* the characters of [.!?]
SentenceEnd == {".", "!", "?"}

\* the first index at or after i where (?<=[.!?])\s+ matches (0 if none)
RECURSIVE boundary_from(_, _)
boundary_from(t, i) ==
    IF i > Len(t) THEN 0
    ELSE IF i > 1 /\ CharAt(t, i) \in Whitespace
            /\ CharAt(t, i - 1) \in SentenceEnd
    THEN i
    ELSE boundary_from(t, i + 1)

\* the index after the run of whitespace that starts at i
RECURSIVE run_end(_, _)
run_end(t, i) ==
    IF i <= Len(t) /\ CharAt(t, i) \in Whitespace THEN run_end(t, i + 1) ELSE i

\* re.split(r"(?<=[.!?])\s+", text)
RECURSIVE split_sentences(_)
split_sentences(t) ==
    LET b == boundary_from(t, 1) IN
    IF b = 0 THEN <<t>>
    ELSE <<SubSeq(t, 1, b - 1)>>
         \o split_sentences(SubSeq(t, run_end(t, b), Len(t)))

\* a faulty variant: a sentence that fills the chunk exactly starts a new one
split_closes_at_threshold(current, sentence, threshold) ==
    current # "" /\ Len(current) + Len(sentence) + 1 >= threshold

\* _split_long_segment, line 130: the chunk is closed before this sentence
split_closes(current, sentence, threshold) ==
    current # "" /\ Len(current) + Len(sentence) + 1 > threshold

\* _split_long_segment, lines 129-134: the loop from sentence i on, as
\* [chunks, current]
RECURSIVE split_loop(_, _, _, _, _)
split_loop(sentences, threshold, chunks, current, i) ==
    IF i > Len(sentences) THEN [chunks |-> chunks, current |-> current]
    ELSE IF split_closes(current, sentences[i], threshold)
    THEN split_loop(sentences, threshold, Append(chunks, strip(current)),
                    sentences[i], i + 1)
    ELSE split_loop(sentences, threshold, chunks,
                    IF current # "" THEN strip(current \o " " \o sentences[i])
                    ELSE sentences[i],
                    i + 1)

\* _split_long_segment(text, threshold)
split_long_segment(text, threshold) ==
    IF Len(text) <= threshold THEN <<text>>
    ELSE LET r == split_loop(split_sentences(text), threshold, <<>>, "", 1)
             chunks == IF strip(r.current) # ""
                       THEN Append(r.chunks, strip(r.current)) ELSE r.chunks
         IN  IF chunks # <<>> THEN chunks ELSE <<text>>

----------------------------------------------------------------------------
(* The inputs of _split_long_segment *)

\* the longest text, in characters
MaxText == 7

\* the strings of n characters over an alphabet
RECURSIVE Strings(_, _)
Strings(alphabet, n) ==
    IF n = 0 THEN {""}
    ELSE {t \o c : t \in Strings(alphabet, n - 1), c \in alphabet}

\* a letter, the end of a sentence, a blank
SplitAlphabet == {"a", ".", " "}

\* Every caller hands over a text it has stripped and found non-empty
\* (_extract_from_paragraph, lines 145-147, 207-212, 154-156, 222-227).
SplitTexts ==
    {t \in UNION {Strings(SplitAlphabet, n) : n \in 1..MaxText} :
        strip(t) = t}

\* thresholds that the texts of the model exceed, and the default
SplitThresholds == {3, 5, SEGMENT_SPLIT_THRESHOLD}

SplitInit ==
    /\ AsmIdle
    /\ SingleIdle
    /\ VoicesIdle
    /\ FreshIdle
    /\ StoreIdle
    /\ pText \in SplitTexts
    /\ pThreshold \in SplitThresholds
    /\ pOut = <<>>
    /\ pRanges = <<>>
    /\ ppc = "input"

\* _split_long_segment(text, threshold)
SplitLongSegment ==
    /\ ppc = "input"
    /\ pOut' = split_long_segment(pText, pThreshold)
    /\ ppc' = "done"
    /\ UNCHANGED <<pText, pThreshold, pRanges, voiceVars, freshVars, storeVars,
                   invVars, status, cmdVars, asmVars, singleVars>>

SplitNext == SplitLongSegment

SpecSplit == SplitInit /\ [][SplitNext]_vars

----------------------------------------------------------------------------
(* parser.py: the regular expressions, on the characters the model uses *)

\* text[a-1:b], the characters a .. b of a text that has them
slice(t, a, b) ==
    LET e == IF b > Len(t) THEN Len(t) ELSE b IN
    IF a < 1 \/ a > e THEN "" ELSE SubSeq(t, a, e)

\* \w
WordChars == {"a", "b", "d", "i", "s", "y", "A", "I", "T"}

\* str.lower()
LowerChar(c) ==
    CASE c = "A" -> "a"
      [] c = "I" -> "i"
      [] c = "T" -> "t"
      [] c = "E" -> "e"
      [] c = "W" -> "w"
      [] OTHER   -> c

RECURSIVE lower_str(_)
lower_str(t) ==
    IF t = "" THEN "" ELSE LowerChar(CharAt(t, 1)) \o lower_str(Tail(t))

\* SPEECH_VERBS: the verbs the texts of the model can contain
SPEECH_VERBS == <<"said">>

\* the length of the verb that (?:said|asked|...) matches at p under
\* re.IGNORECASE, 0 if none does
RECURSIVE verb_from(_, _, _)
verb_from(t, p, k) ==
    IF k > Len(SPEECH_VERBS) THEN 0
    ELSE LET n == Len(SPEECH_VERBS[k]) IN
         IF p + n - 1 <= Len(t)
            /\ lower_str(slice(t, p, p + n - 1)) = SPEECH_VERBS[k]
         THEN n
         ELSE verb_from(t, p, k + 1)

verb_at(t, p) == IF p > Len(t) THEN 0 ELSE verb_from(t, p, 1)

\* a match: the characters start .. stop-1, and the two groups
NoMatch == [start |-> 0, stop |-> 0, quote |-> "", speaker |-> ""]
Match(start, stop, quote, speaker) ==
    [start |-> start, stop |-> stop, quote |-> quote, speaker |-> speaker]

\* the index of the first '"' at or after i (0 if none)
RECURSIVE next_quote(_, _)
next_quote(t, i) ==
    IF i > Len(t) THEN 0
    ELSE IF CharAt(t, i) = "\"" THEN i
    ELSE next_quote(t, i + 1)

\* _DIALOGUE_RE, "([^"]+)", matched at i
dialogue_at(t, i) ==
    IF i > Len(t) \/ CharAt(t, i) # "\"" THEN NoMatch
    ELSE LET j == next_quote(t, i + 1) IN
         IF j = 0 \/ j = i + 1 THEN NoMatch
         ELSE Match(i, j + 1, slice(t, i + 1, j - 1), "")

\* one optional character of a class at i: the index after it
skip_one(t, i, class) ==
    IF i <= Len(t) /\ CharAt(t, i) \in class THEN i + 1 ELSE i

\* \s*[,.]?\s* from i: the index after it
attr_lead(t, i) == run_end(t, skip_one(t, run_end(t, i), {",", "."}))

\* the characters of [,;.\-!?] that end an attribution
AttrEnd == {",", ";", ".", "-", "!", "?"}

\* (?:\s*[,;.\-!?]|$) from q: the index after it (0 if it does not match)
terminator(t, q) ==
    LET r == run_end(t, q) IN
    IF r <= Len(t) /\ CharAt(t, r) \in AttrEnd THEN r + 1
    ELSE IF q = Len(t) + 1 THEN q
    ELSE 0

\* (I|[A-Za-z][\w\s.]*?) followed by the terminator: the last index of the
\* shortest speaker that starts at w and reaches e at least (0 if none)
RECURSIVE speaker_end(_, _)
speaker_end(t, e) ==
    IF terminator(t, e + 1) # 0 THEN e
    ELSE IF e + 1 <= Len(t)
            /\ CharAt(t, e + 1) \in WordChars \cup Whitespace \cup {"."}
    THEN speaker_end(t, e + 1)
    ELSE 0

\* _POST_ATTR_RE matched at i
post_attr_at(t, i) ==
    LET q == dialogue_at(t, i) IN
    IF q = NoMatch THEN NoMatch
    ELSE LET p == attr_lead(t, q.stop)
             n == verb_at(t, p)
             w == run_end(t, p + n)
         IN  IF n = 0 \/ w = p + n \/ w > Len(t) \/ CharAt(t, w) \notin WordChars
             THEN NoMatch
             ELSE LET e == speaker_end(t, w) IN
                  IF e = 0 THEN NoMatch
                  ELSE Match(i, terminator(t, e + 1), q.quote, slice(t, w, e))

\* _FIRST_PERSON_POST_RE matched at i
first_person_post_at(t, i) ==
    LET q == dialogue_at(t, i) IN
    IF q = NoMatch THEN NoMatch
    ELSE LET p == attr_lead(t, q.stop)
             w == run_end(t, p + 1)
             n == verb_at(t, w)
         IN  IF p > Len(t) \/ LowerChar(CharAt(t, p)) # "i" \/ w = p + 1
                \/ n = 0 \/ terminator(t, w + n) = 0
             THEN NoMatch
             ELSE Match(i, terminator(t, w + n), q.quote, CharAt(t, p))

\* the index after the run of \w that starts at i
RECURSIVE word_end(_, _)
word_end(t, i) ==
    IF i <= Len(t) /\ CharAt(t, i) \in WordChars THEN word_end(t, i + 1) ELSE i

\* \s*[,:]?\s*(?:--)?\s*"([^"]+)" from x
pre_quote(t, x) ==
    LET c == run_end(t, skip_one(t, run_end(t, x), {",", ":"}))
        d == IF slice(t, c, c + 1) = "--" THEN c + 2 ELSE c
    IN  dialogue_at(t, run_end(t, d))

\* (?:\s+\w+){0,3} and what follows it, from x, n words having been taken
RECURSIVE pre_tail(_, _, _)
pre_tail(t, x, n) ==
    LET w == run_end(t, x) IN
    IF n < 3 /\ w > x /\ w <= Len(t) /\ CharAt(t, w) \in WordChars
    THEN LET r == pre_tail(t, word_end(t, w), n + 1) IN
         IF r # NoMatch THEN r ELSE pre_quote(t, x)
    ELSE pre_quote(t, x)

\* _PRE_ATTR_RE matched at i, the speaker reaching e at least: the speaker
\* is the shortest that whitespace, a verb and the rest follow
RECURSIVE pre_attr_from(_, _, _)
pre_attr_from(t, i, e) ==
    LET v == run_end(t, e + 1)
        n == verb_at(t, v)
        q == IF v > e + 1 /\ n > 0 THEN pre_tail(t, v + n, 0) ELSE NoMatch
    IN  IF q # NoMatch THEN Match(i, q.stop, q.quote, slice(t, i, e))
        ELSE IF e + 1 <= Len(t)
                /\ CharAt(t, e + 1) \in WordChars \cup Whitespace \cup {"."}
        THEN pre_attr_from(t, i, e + 1)
        ELSE NoMatch

pre_attr_at(t, i) ==
    IF i > Len(t) \/ CharAt(t, i) \notin WordChars THEN NoMatch
    ELSE pre_attr_from(t, i, i)

\* pattern.match at index i
match_at(pattern, t, i) ==
    CASE pattern = "_FIRST_PERSON_POST_RE" -> first_person_post_at(t, i)
      [] pattern = "_POST_ATTR_RE"         -> post_attr_at(t, i)
      [] pattern = "_PRE_ATTR_RE"          -> pre_attr_at(t, i)
      [] pattern = "_DIALOGUE_RE"          -> dialogue_at(t, i)

\* pattern.finditer(text), from index i on
RECURSIVE finditer(_, _, _)
finditer(pattern, t, i) ==
    IF i > Len(t) THEN <<>>
    ELSE LET m == match_at(pattern, t, i) IN
         IF m = NoMatch THEN finditer(pattern, t, i + 1)
         ELSE <<m>> \o finditer(pattern, t, m.stop)

\* str.rstrip(chars)
RECURSIVE rstrip_chars(_, _)
rstrip_chars(t, chars) ==
    IF t # "" /\ CharAt(t, Len(t)) \in chars
    THEN rstrip_chars(slice(t, 1, Len(t) - 1), chars) ELSE t

\* \s*(?:verbs)\s*[,:]?\s*(?:--)?\s*$ matches from x to the end of the text
trailing_attr_at(t, x) ==
    LET a == run_end(t, x)
        n == verb_at(t, a)
        c == run_end(t, skip_one(t, run_end(t, a + n), {",", ":"}))
        d == IF slice(t, c, c + 1) = "--" THEN c + 2 ELSE c
    IN  n > 0 /\ run_end(t, d) = Len(t) + 1

\* re.sub of that pattern by '': the text before the leftmost match
RECURSIVE sub_trailing_attr(_, _)
sub_trailing_attr(t, x) ==
    IF x > Len(t) THEN t
    ELSE IF trailing_attr_at(t, x) THEN slice(t, 1, x - 1)
    ELSE sub_trailing_attr(t, x + 1)

\* the index after the run of [,;.!?-] that starts at i
RECURSIVE punct_end(_, _)
punct_end(t, i) ==
    IF i <= Len(t) /\ CharAt(t, i) \in {",", ";", ".", "!", "?", "-"}
    THEN punct_end(t, i + 1) ELSE i

\* re.sub(^\s*(?:verbs)\s+\w[\w\s.]*?[,;.!?-]*\s*, '', text)
sub_leading_attr(t) ==
    LET a == run_end(t, 1)
        n == verb_at(t, a)
        w == run_end(t, a + n)
    IN  IF n > 0 /\ w > a + n /\ w <= Len(t) /\ CharAt(t, w) \in WordChars
        THEN slice(t, run_end(t, punct_end(t, w + 1)), Len(t))
        ELSE t

----------------------------------------------------------------------------
(* parser.py: parse_story *)

\* _normalize_speaker(name)
normalize_speaker(name) ==
    LET n == strip(rstrip_chars(strip(name), {".", ",", ";", ":", "!", "?", "-"}))
    IN  IF lower_str(n) \in {"i", "we"} THEN "narrator" ELSE lower_str(n)

\* the narration segments of a text that is not empty
narration(t, threshold) ==
    LET chunks == split_long_segment(t, threshold) IN
    [k \in 1..Len(chunks) |-> Segment("narration", chunks[k], "narrator", "")]

\* a faulty variant: only a range found before with the same start and end
\* counts
overlaps_exactly(m, ranges) ==
    \E r \in 1..Len(ranges) :
        m.start = ranges[r].start /\ m.stop = ranges[r].stop

\* lines 165-169 and 179-183: the match overlaps a range found before
overlaps(m, ranges) ==
    \E r \in 1..Len(ranges) :
        ~(m.stop <= ranges[r].start \/ m.start >= ranges[r].stop)

\* _extract_from_paragraph, lines 159-185: the matches of one pattern that
\* have a quote and overlap no range found before, added to the ranges
RECURSIVE add_ranges(_, _, _, _)
add_ranges(ranges, matches, speaker, k) ==
    IF k > Len(matches) THEN ranges
    ELSE LET m == matches[k]
             overlap == overlaps(m, ranges)
             range ==
                 Match(m.start, m.stop, strip(m.quote),
                       IF speaker = "" THEN normalize_speaker(m.speaker)
                       ELSE speaker)
         IN  add_ranges(IF strip(m.quote) # "" /\ ~overlap
                        THEN Append(ranges, range) ELSE ranges,
                        matches, speaker, k + 1)

\* a faulty variant: a blank quote is kept
first_ranges_keep_blank(matches) ==
    [k \in 1..Len(matches) |->
        Match(matches[k].start, matches[k].stop, strip(matches[k].quote),
              normalize_speaker(matches[k].speaker))]

\* lines 153-157: the first pattern's matches are not tested for overlap
first_ranges(matches) ==
    LET kept == SelectSeq(matches, LAMBDA m : strip(m.quote) # "") IN
    [k \in 1..Len(kept) |->
        Match(kept[k].start, kept[k].stop, strip(kept[k].quote),
              normalize_speaker(kept[k].speaker))]

\* the matches of the four patterns, each list computed once
pattern_matches(text) ==
    [first  |-> finditer("_FIRST_PERSON_POST_RE", text, 1),
     post   |-> finditer("_POST_ATTR_RE", text, 1),
     pre    |-> finditer("_PRE_ATTR_RE", text, 1),
     quotes |-> finditer("_DIALOGUE_RE", text, 1)]

\* lines 153-185: dialogue_ranges after each of the three attributing
\* passes, as <<r1, r2, r3>>, each pass computed once
attributed_ranges(m) ==
    CHOOSE r \in
        UNION { UNION { { <<r1, r2, r3>> :
                            r3 \in {add_ranges(r2, m.pre, "", 1)} } :
                        r2 \in {add_ranges(r1, m.post, "", 1)} } :
                r1 \in {first_ranges(m.first)} } : TRUE

\* a faulty variant: the quotes that no pattern attributes are added to the
\* attributed ones
extract_ranges_with_quotes(text) ==
    CHOOSE result \in
        UNION { { [first |-> m.first, post |-> m.post, pre |-> m.pre,
                   quotes |-> m.quotes, r1 |-> r[1], r2 |-> r[2], r3 |-> r[3],
                   ranges |-> add_ranges(r[3], m.quotes, "unknown", 1)] :
                  r \in {attributed_ranges(m)} } :
                m \in {pattern_matches(text)} } : TRUE

\* lines 150-192: the matches of the four patterns (first, post, pre,
\* quotes), dialogue_ranges after each of the three passes (r1, r2, r3) and
\* at line 194 (ranges)
extract_ranges(text) ==
    CHOOSE result \in
        UNION { { [first |-> m.first, post |-> m.post, pre |-> m.pre,
                   quotes |-> m.quotes, r1 |-> r[1], r2 |-> r[2], r3 |-> r[3],
                   ranges |->
                       IF r[3] # <<>> THEN r[3]
                       ELSE first_ranges(
                                [k \in 1..Len(m.quotes) |->
                                    [m.quotes[k] EXCEPT !.speaker = "unknown"]])] :
                  r \in {attributed_ranges(m)} } :
                m \in {pattern_matches(text)} } : TRUE

dialogue_ranges(text) == extract_ranges(text).ranges

\* lines 205-219: the loop over the sorted ranges, from range k on
RECURSIVE extract_loop(_, _, _, _, _)
extract_loop(text, threshold, ranges, pos, k) ==
    IF k > Len(ranges)
    THEN LET after == strip(slice(text, pos, Len(text)))
             rest  == strip(sub_leading_attr(after))
         IN  IF after # "" /\ rest # "" THEN narration(rest, threshold)
             ELSE <<>>
    ELSE LET r == ranges[k]
             before0 == strip(slice(text, pos, r.start - 1))
             before1 == strip(sub_trailing_attr(before0, 1))
             before  == strip(rstrip_chars(
                            before1, {".", ",", ";", ":", "!", "?", "-", " "}))
             chunks  == split_long_segment(r.quote, threshold)
         IN  (IF before # "" THEN narration(before, threshold) ELSE <<>>)
             \o [c \in 1..Len(chunks) |->
                    Segment("dialogue", chunks[c], r.speaker, "")]
             \o extract_loop(text, threshold, ranges, r.stop, k + 1)

\* _extract_from_paragraph(paragraph)
extract_from_paragraph(paragraph, threshold) ==
    LET text   == strip(paragraph)
        ranges == dialogue_ranges(text)
    IN  IF text = "" THEN <<>>
        ELSE IF ranges = <<>> THEN narration(text, threshold)
        ELSE extract_loop(text, threshold,
                          SortSeq(ranges, LAMBDA a, b : a.start < b.start),
                          1, 1)

\* the index of the last "\n" of the whitespace that starts at i (0 if none)
RECURSIVE last_newline(_, _, _)
last_newline(t, i, found) ==
    IF i > Len(t) \/ CharAt(t, i) \notin Whitespace THEN found
    ELSE last_newline(t, i + 1, IF CharAt(t, i) = "\n" THEN i ELSE found)

\* re.split(r"\n\s*\n", text), from index i on, `from` being where the
\* piece began
RECURSIVE split_paragraphs_from(_, _, _)
split_paragraphs_from(t, from, i) ==
    IF i > Len(t) THEN <<slice(t, from, Len(t))>>
    ELSE LET j == IF CharAt(t, i) = "\n" THEN last_newline(t, i + 1, 0) ELSE 0
         IN  IF j = 0 THEN split_paragraphs_from(t, from, i + 1)
             ELSE <<slice(t, from, i - 1)>>
                  \o split_paragraphs_from(t, j + 1, j + 1)

split_paragraphs(t) == split_paragraphs_from(t, 1, 1)

\* str.split("\n")
RECURSIVE split_lines_from(_, _, _)
split_lines_from(t, from, i) ==
    IF i > Len(t) THEN <<slice(t, from, Len(t))>>
    ELSE IF CharAt(t, i) = "\n"
    THEN <<slice(t, from, i - 1)>> \o split_lines_from(t, i + 1, i + 1)
    ELSE split_lines_from(t, from, i + 1)

split_lines(t) == split_lines_from(t, 1, 1)

\* re.match(r"^by\s+", line, re.IGNORECASE)
is_by_line(line) ==
    /\ Len(line) >= 3
    /\ lower_str(slice(line, 1, 2)) = "by"
    /\ CharAt(line, 3) \in Whitespace

\* _strip_metadata_header, lines 90-102: the paragraph is metadata
is_metadata(para, i) ==
    LET lines == split_lines(strip(para)) IN
    \A k \in 1..Len(lines) :
        \/ strip(lines[k]) = ""
        \/ is_by_line(strip(lines[k]))
        \/ (i = 0 /\ Len(lines) <= 2)

\* lines 85-106: the index of the first paragraph that is kept
RECURSIVE start_idx_from(_, _, _)
start_idx_from(paragraphs, i, start_idx) ==
    IF i >= Len(paragraphs) THEN start_idx
    ELSE IF strip(paragraphs[i + 1]) = ""
    THEN start_idx_from(paragraphs, i + 1, start_idx)
    ELSE IF is_metadata(paragraphs[i + 1], i)
    THEN start_idx_from(paragraphs, i + 1, i + 1)
    ELSE start_idx

\* "\n\n".join(strs)
RECURSIVE join_paragraphs(_)
join_paragraphs(strs) ==
    IF strs = <<>> THEN ""
    ELSE IF Len(strs) = 1 THEN Head(strs)
    ELSE Head(strs) \o "\n\n" \o join_paragraphs(Tail(strs))

\* _strip_metadata_header(text)
strip_metadata_header(text) ==
    LET paragraphs == split_paragraphs(strip(text))
        start_idx  == start_idx_from(paragraphs, 0, 0)
    IN  join_paragraphs(SubSeq(paragraphs, start_idx + 1, Len(paragraphs)))

\* extract_metadata, lines 63-69: the lines from k on hold a "by" line; its
\* index, 0 if there is none
RECURSIVE by_line_from(_, _)
by_line_from(lines, k) ==
    IF k > Len(lines) THEN 0
    ELSE IF is_by_line(strip(lines[k])) THEN k
    ELSE by_line_from(lines, k + 1)

has_by_line(text) == by_line_from(split_lines(strip(text)), 1) # 0

\* extract_metadata(text)
extract_metadata(text) ==
    LET lines == split_lines(strip(text))
        by == by_line_from(lines, 1)
        non_empty == SelectSeq(lines, LAMBDA line : strip(line) # "")
    IN  [title  |-> IF by # 0 /\ non_empty # <<>> THEN strip(Head(non_empty))
                    ELSE "Untitled",
         author |-> IF by # 0
                    THEN strip(slice(strip(lines[by]), 3, Len(strip(lines[by]))))
                    ELSE "Unknown Author"]

\* parse_story, lines 243-248: the loop from paragraph k on
RECURSIVE parse_from(_, _, _)
parse_from(paragraphs, threshold, k) ==
    IF k > Len(paragraphs) THEN <<>>
    ELSE (IF strip(paragraphs[k]) = "" THEN <<>>
          ELSE extract_from_paragraph(strip(paragraphs[k]), threshold))
         \o parse_from(paragraphs, threshold, k + 1)

\* parse_story(text); the threshold is that of _split_long_segment
parse_story(text, threshold) ==
    parse_from(split_paragraphs(strip_metadata_header(text)), threshold, 1)

\* The stories of the model: a header and up to MaxPieces pieces.
MaxPieces == 4

\* a quote, a blank quote, a verb, two names, the end of a sentence, a
\* comma, the end of a paragraph
StoryPieces == {"\"a\"", "\" \"", " said ", "a", "I", ". ", ",", "\n\n"}

\* no header, a title, a title and an author
StoryHeaders == {"", "T\n\n", "T\nby A\n\n"}

RECURSIVE Concats(_, _)
Concats(pieces, n) ==
    IF n = 0 THEN {""}
    ELSE {t \o c : t \in Concats(pieces, n - 1), c \in pieces}

StoryTexts ==
    {h \o b : h \in StoryHeaders,
              b \in UNION {Concats(StoryPieces, n) : n \in 0..MaxPieces}}

\* a threshold that the texts of the model exceed, and the default
StoryThresholds == {3, SEGMENT_SPLIT_THRESHOLD}

ParseInit ==
    /\ AsmIdle
    /\ SingleIdle
    /\ VoicesIdle
    /\ FreshIdle
    /\ StoreIdle
    /\ pText \in StoryTexts
    /\ pThreshold \in StoryThresholds
    /\ pOut = <<>>
    /\ pRanges = <<>>
    /\ ppc = "story"

ParseStory ==
    /\ ppc = "story"
    /\ pOut' = parse_story(pText, pThreshold)
    /\ ppc' = "parsed"
    /\ UNCHANGED <<pText, pThreshold, pRanges, voiceVars, freshVars, storeVars,
                   invVars, status, cmdVars, asmVars, singleVars>>

ParseNext == ParseStory

SpecParse == ParseInit /\ [][ParseNext]_vars

----------------------------------------------------------------------------
(* parser.py: _extract_from_paragraph on one paragraph *)

\* The paragraphs of the model: a start and up to MaxParagraphPieces pieces.
MaxParagraphPieces == 3

\* a quote, a blank quote, a quotation mark, a verb, two names, the end of
\* a sentence, a comma
ParagraphPieces == {"\"a\"", "\" \"", "\"", " said ", "I", "a", ". ", ","}

\* nothing, or a quote that one of the three patterns attributes
ParagraphStarts ==
    {"", "\"a\" I said, ", "\"a\" said a. ", "a said \"a\" "}

\* parse_story passes paragraphs that are stripped and not empty
ParagraphTexts ==
    {strip(h \o b) :
        h \in ParagraphStarts,
        b \in UNION {Concats(ParagraphPieces, n) : n \in 0..MaxParagraphPieces}}
    \ {""}

ExtractInit ==
    /\ AsmIdle
    /\ SingleIdle
    /\ VoicesIdle
    /\ FreshIdle
    /\ StoreIdle
    /\ pText \in ParagraphTexts
    /\ pThreshold \in StoryThresholds
    /\ pOut = <<>>
    /\ pRanges = <<>>
    /\ ppc = "paragraph"

\* _extract_from_paragraph(paragraph)
ExtractFromParagraph ==
    /\ ppc = "paragraph"
    /\ pOut' = extract_from_paragraph(pText, pThreshold)
    /\ pRanges' = extract_ranges(strip(pText))
    /\ ppc' = "extracted"
    /\ UNCHANGED <<pText, pThreshold, voiceVars, freshVars, storeVars,
                   invVars, status, cmdVars, asmVars, singleVars>>

ExtractNext == ExtractFromParagraph

SpecExtract == ExtractInit /\ [][ExtractNext]_vars

\* two ranges overlap unless one ends at or before the other's start
C21_Overlap(a, b) == ~(a.stop <= b.start \/ a.start >= b.stop)

\* one pass that turns the ranges prior into the ranges after: it keeps
\* the ranges found before, and a candidate (any match if all, else a match
\* whose quote is not blank) is accepted if and only if it overlaps no range
\* accepted before it
C21_Pass(candidates, prior, after, all) ==
    /\ Len(prior) <= Len(after)
    /\ SubSeq(after, 1, Len(prior)) = prior
    /\ \A k \in 1..Len(candidates) :
           LET c == candidates[k] IN
           (all \/ strip(c.quote) # "") =>
               ((\E i \in (Len(prior) + 1)..Len(after) :
                    after[i].start = c.start /\ after[i].stop = c.stop)
                <=> \A i \in 1..Len(after) :
                        (i <= Len(prior) \/ after[i].start < c.start)
                            => ~C21_Overlap(after[i], c))

C21_NonOverlapping ==
    \A a, b \in 1..Len(pRanges.r3) :
        a < b => ~C21_Overlap(pRanges.r3[a], pRanges.r3[b])

\* C21 as stated: the ranges accepted by the three passes overlap nowhere,
\* and every match of the post-attribution and of the pre-attribution
\* pattern is accepted if and only if it overlaps no range accepted before it.
C21_AnyCandidateAcceptedIffNoOverlap ==
    ppc = "extracted" =>
        /\ C21_NonOverlapping
        /\ C21_Pass(pRanges.post, pRanges.r1, pRanges.r2, TRUE)
        /\ C21_Pass(pRanges.pre, pRanges.r2, pRanges.r3, TRUE)

\* C21, amended: the ranges accepted by the three passes overlap nowhere,
\* and a match of a later pass whose quote is not blank is accepted if and
\* only if it overlaps no range accepted before it; a match whose quote is
\* blank is never accepted.
C21_AcceptedIffNoOverlap ==
    ppc = "extracted" =>
        /\ C21_NonOverlapping
        /\ C21_Pass(pRanges.post, pRanges.r1, pRanges.r2, FALSE)
        /\ C21_Pass(pRanges.pre, pRanges.r2, pRanges.r3, FALSE)
        /\ \A i \in 1..Len(pRanges.r3) : pRanges.r3[i].quote # ""

\* a post-attribution match is accepted and a pre-attribution match with a
\* quote is rejected because it overlaps it
C21_Witness ==
    /\ ppc = "extracted"
    /\ pRanges.r1 = <<>>
    /\ Len(pRanges.r2) = 1
    /\ pRanges.r3 = pRanges.r2
    /\ \E k \in 1..Len(pRanges.pre) :
           /\ strip(pRanges.pre[k].quote) # ""
           /\ C21_Overlap(pRanges.pre[k], pRanges.r2[1])

\* the dialogue segments of a list of segments
C22_Dialogue(segs) == SelectSeq(segs, LAMBDA g : g.type = "dialogue")

\* the dialogue segments that the quotes of the matches k.. give, each
\* with the speaker of its match; a blank quote gives none
RECURSIVE C22_Emitted(_, _, _)
C22_Emitted(matches, threshold, k) ==
    IF k > Len(matches) THEN <<>>
    ELSE LET chunks == split_long_segment(strip(matches[k].quote), threshold)
         IN  (IF strip(matches[k].quote) # ""
              THEN [c \in 1..Len(chunks) |->
                       Segment("dialogue", chunks[c], matches[k].speaker, "")]
              ELSE <<>>)
             \o C22_Emitted(matches, threshold, k + 1)

\* the text t holds the text u
C22_Holds(t, u) ==
    \E i \in 1..Len(t) : i + Len(u) - 1 <= Len(t) /\ slice(t, i, i + Len(u) - 1) = u

\* the quoted spans that overlap no accepted range
C22_OtherSpans ==
    {k \in 1..Len(pRanges.quotes) :
        \A i \in 1..Len(pRanges.r3) :
            ~C21_Overlap(pRanges.quotes[k], pRanges.r3[i])}

C22_Unknown(matches) ==
    [k \in 1..Len(matches) |-> [matches[k] EXCEPT !.speaker = "unknown"]]

\* with an attributed match the dialogue is that of the accepted ranges,
\* none of it is "unknown", and every other quoted span is in the text of a
\* narration segment (of the one segment of its stretch, when nothing is
\* split)
C22_Attributed ==
    pRanges.r3 # <<>> =>
        /\ C22_Dialogue(pOut)
             = C22_Emitted(SortSeq(pRanges.r3, LAMBDA a, b : a.start < b.start),
                           pThreshold, 1)
        /\ \A k \in 1..Len(pOut) : pOut[k].speaker # "unknown"
        /\ pThreshold = SEGMENT_SPLIT_THRESHOLD =>
               \A k \in C22_OtherSpans :
                   \E g \in 1..Len(pOut) :
                       /\ pOut[g].type = "narration"
                       /\ C22_Holds(pOut[g].text,
                                    slice(strip(pText), pRanges.quotes[k].start,
                                          pRanges.quotes[k].stop - 1))

\* C22: the quoted spans of a paragraph are emitted as dialogue of "unknown"
\* if and only if no pass accepted a match (a blank span yields no segment,
\* as everywhere); with an accepted match the dialogue is that of the
\* accepted ranges, none of it "unknown", and every other quoted span is
\* inside narration.
C22_UnknownIffNoAttribution ==
    ppc = "extracted" =>
        /\ pRanges.r3 = <<>> =>
               C22_Dialogue(pOut)
                   = C22_Emitted(C22_Unknown(pRanges.quotes), pThreshold, 1)
        /\ C22_Attributed

\* a paragraph with an attributed quote and another quoted span, which is
\* narration
C22_Witness ==
    /\ ppc = "extracted"
    /\ pRanges.r3 # <<>>
    /\ \E k \in C22_OtherSpans : strip(pRanges.quotes[k].quote) # ""
    /\ Len(C22_Dialogue(pOut)) = 1

----------------------------------------------------------------------------
(* parser.py: _normalize_speaker on one name *)

\* the longest name of the model
MaxName == 4

\* letters of the two pronouns in both cases, a full stop, a dash, a blank
NameAlphabet == {"I", "i", "W", "e", ".", "-", " "}

NameTexts == UNION {Strings(NameAlphabet, n) : n \in 0..MaxName}

NormalizeInit ==
    /\ AsmIdle
    /\ SingleIdle
    /\ VoicesIdle
    /\ FreshIdle
    /\ StoreIdle
    /\ pText \in NameTexts
    /\ pThreshold = 0
    /\ pOut = <<>>
    /\ pRanges = <<>>
    /\ ppc = "name"

\* _normalize_speaker(name)
NormalizeSpeaker ==
    /\ ppc = "name"
    /\ pOut' = <<normalize_speaker(pText)>>
    /\ ppc' = "normalized"
    /\ UNCHANGED <<pText, pThreshold, pRanges, voiceVars, freshVars, storeVars,
                   invVars, status, cmdVars, asmVars, singleVars>>

NormalizeNext == NormalizeSpeaker

SpecNormalize == NormalizeInit /\ [][NormalizeNext]_vars

\* C23: the name _normalize_speaker returns is lowercase, has no leading or
\* trailing whitespace, does not end in punctuation or a dash, is "narrator"
\* for "I" and "we" in any letter case, and is returned unchanged when it is
\* normalized again.
C23_NormalizedAndIdempotent ==
    ppc = "normalized" =>
        LET n == pOut[1] IN
        /\ lower_str(n) = n
        /\ strip(n) = n
        /\ n # "" => CharAt(n, Len(n)) \notin {".", ",", ";", ":", "!", "?", "-"}
        /\ lower_str(pText) \in {"i", "we"} => n = "narrator"
        /\ normalize_speaker(n) = n

\* C24: for a story without a "by" line, for which extract_metadata accepts
\* no title, parse_story strips no header: its segments are those of all the
\* paragraphs, and every paragraph that is not blank, the first included,
\* yields a segment.
C24_NoHeaderWithoutByLine ==
    (ppc = "parsed" /\ extract_metadata(pText).title = "Untitled") =>
        LET paragraphs == split_paragraphs(strip(pText)) IN
        /\ pOut = parse_from(paragraphs, pThreshold, 1)
        /\ \A k \in 1..Len(paragraphs) :
               strip(paragraphs[k]) # "" =>
                   \E g \in 1..Len(pOut) :
                       pOut[g] \in Range(extract_from_paragraph(
                                           paragraphs[k], pThreshold))

\* C15: no segment that parse_story returns has an empty or whitespace-only
\* text, whatever the story: blank quotes, narration that the clean-up
\* empties and blank paragraphs yield no segment.
C15_NoBlankSegment ==
    ppc = "parsed" => \A k \in 1..Len(pOut) : strip(pOut[k].text) # ""

\* the narration before the quote is an attribution that the clean-up
\* empties: the quote is the only segment
C15_Witness ==
    /\ ppc = "parsed"
    /\ pText = "T\n\n said ,\"a\""
    /\ pOut = <<Segment("dialogue", "a", "unknown", "")>>

----------------------------------------------------------------------------
(* assembly.py: the pauses between segments *)

PAUSE_SAME_TYPE_MS == 225
PAUSE_SPEAKER_CHANGE_MS == 375
PAUSE_TYPE_TRANSITION_MS == 525

\* max(a, b)
max(a, b) == IF a >= b THEN a ELSE b

\* An AudioSegment is the list of its pieces in playing order, each a clip
\* or a silence of some milliseconds; + is concatenation.
Clip(id, ms) == [kind |-> "clip", id |-> id, ms |-> ms]

\* AudioSegment.silent(duration)
silent(duration) ==
    IF duration = 0 THEN <<>>
    ELSE << [kind |-> "silence", id |-> 0, ms |-> duration] >>

\* a faulty variant: the pauses of the rules that apply add up
calculate_pause_sum(prev, curr) ==
    PAUSE_SAME_TYPE_MS
    + (IF prev.type # curr.type THEN PAUSE_TYPE_TRANSITION_MS ELSE 0)
    + (IF prev.speaker # curr.speaker THEN PAUSE_SPEAKER_CHANGE_MS ELSE 0)

\* _calculate_pause(prev, curr)
calculate_pause(prev, curr) ==
    LET pause  == PAUSE_SAME_TYPE_MS
        pause1 == IF prev.type # curr.type
                  THEN max(pause, PAUSE_TYPE_TRANSITION_MS) ELSE pause
    IN  IF prev.speaker # curr.speaker
        THEN max(pause1, PAUSE_SPEAKER_CHANGE_MS) ELSE pause1

\* _concatenate_with_pauses, lines 41-46: the loop from index i on
RECURSIVE concatenate_from(_, _, _, _)
concatenate_from(segs, audio_files, result, i) ==
    IF i > Len(audio_files) THEN result
    ELSE concatenate_from(
             segs, audio_files,
             result \o silent(calculate_pause(segs[i - 1], segs[i]))
                    \o audio_files[i],
             i + 1)

\* _concatenate_with_pauses(segments, audio_files)
concatenate_with_pauses(segs, audio_files) ==
    IF audio_files = <<>> THEN silent(0)
    ELSE concatenate_from(segs, audio_files, audio_files[1], 2)

----------------------------------------------------------------------------
(* The inputs of _concatenate_with_pauses *)

MaxClips == 3

PauseSegChoices ==
    { Segment(type, "t", speaker, "v") :
        type \in {"narration", "dialogue"},
        speaker \in {"narrator", "alice", "bob"} }

ClipMsChoices == {400, 500}

PauseInit ==
    /\ VoicesIdle
    /\ FreshIdle
    /\ StoreIdle
    /\ ParserIdle
    /\ SingleIdle
    /\ \E n \in 0..MaxClips :
          /\ aSegments \in [1..n -> PauseSegChoices]
          /\ \E ms \in [1..n -> ClipMsChoices] :
                aAudio = [i \in 1..n |-> << Clip(i, ms[i]) >>]
    /\ aOut = <<>>
    /\ apc = "input"

\* _concatenate_with_pauses(segments, audio_files)
ConcatenateWithPauses ==
    /\ apc = "input"
    /\ aOut' = concatenate_with_pauses(aSegments, aAudio)
    /\ apc' = "done"
    /\ UNCHANGED <<aSegments, aAudio, voiceVars, freshVars, storeVars,
                   invVars, status, cmdVars, parserVars, singleVars>>

PauseNext == ConcatenateWithPauses

SpecPause == PauseInit /\ [][PauseNext]_vars

----------------------------------------------------------------------------
(* tts.py: the attempts of one generate_single call *)

TTS_RETRY_COUNT == 3

\* TTS_RETRY_BASE_DELAY, in seconds
TTS_RETRY_BASE_DELAY == 1

\* what is at output_path: nothing, or a file of some size written by the
\* attempt `by` (0: it was there before the call)
NoFile == [exists |-> FALSE, size |-> 0, by |-> 0]
FileOf(size, by) == [exists |-> TRUE, size |-> size, by |-> by]

\* What communicate.save does at one attempt: it writes audio and returns,
\* it returns having written an empty file, it raises before it opens the
\* file, it raises having opened (and so emptied) it, or it raises having
\* written a part of the audio.
Answer(write, error) == [write |-> write, error |-> error]

\* asyncio.run(communicate.save(output_path)) at attempt number `attempt`
save(file, answer, attempt) ==
    CASE answer.write = "audio" -> FileOf(1, attempt + 1)
      [] answer.write = "empty" -> FileOf(0, attempt + 1)
      [] OTHER                  -> file

\* the exception generate_single makes of a 0-byte file
ZeroByteError == "TTS produced 0-byte file"

\* a faulty variant: the delay is slept after the last attempt too
backoff_always(attempt, sleeps) ==
    Append(sleeps, TTS_RETRY_BASE_DELAY * (2 ^ attempt))

\* generate_single, lines 34-37: time.sleep between attempts
backoff(attempt, sleeps) ==
    IF attempt < TTS_RETRY_COUNT - 1
    THEN Append(sleeps, TTS_RETRY_BASE_DELAY * (2 ^ attempt))
    ELSE sleeps

\* generate_single, lines 20-39: the loop from `attempt` on
RECURSIVE single_from(_, _, _, _, _)
single_from(service, file, attempt, last_error, sleeps) ==
    IF attempt >= TTS_RETRY_COUNT
    THEN [raised |-> TRUE, error |-> last_error, attempts |-> attempt,
          sleeps |-> sleeps, file |-> file]
    ELSE LET answer == service[attempt + 1]
             file1  == save(file, answer, attempt)
         IN  IF answer.error = "" /\ file1.exists /\ file1.size > 0
             THEN [raised |-> FALSE, error |-> "", attempts |-> attempt + 1,
                   sleeps |-> sleeps, file |-> file1]
             ELSE single_from(service, file1, attempt + 1,
                              IF answer.error = "" THEN ZeroByteError
                              ELSE answer.error,
                              backoff(attempt, sleeps))

----------------------------------------------------------------------------
(* The speech service during one generate_single call *)

ServiceAnswers ==
    { Answer("audio", ""), Answer("empty", ""),
      Answer("none", "timeout"), Answer("empty", "http 503"),
      Answer("audio", "connection reset") }

FileChoicesBefore == {NoFile, FileOf(0, 0), FileOf(1, 0)}

SingleInit ==
    /\ VoicesIdle
    /\ FreshIdle
    /\ StoreIdle
    /\ ParserIdle
    /\ AsmIdle
    /\ gService \in [1..(TTS_RETRY_COUNT + 1) -> ServiceAnswers]
    /\ gFile \in FileChoicesBefore
    /\ gOut = [raised |-> FALSE]
    /\ gpc = "input"

\* generate_single(text, voice, output_path)
GenerateSingle ==
    LET r == single_from(gService, gFile, 0, "", <<>>) IN
    /\ gpc = "input"
    /\ gFile' = r.file
    /\ gOut' = [raised |-> r.raised, error |-> r.error,
                attempts |-> r.attempts, sleeps |-> r.sleeps]
    /\ gpc' = "done"
    /\ UNCHANGED <<gService, voiceVars, freshVars, storeVars, invVars,
                   status, cmdVars, parserVars, asmVars>>

SingleNext == GenerateSingle

SpecSingle == SingleInit /\ [][SingleNext]_vars

----------------------------------------------------------------------------
(* Claims about assign_voices, checked under SpecVoices *)

\* the aliases of a cast entry, lowercased
LowerAliases(e) == {lower(a) : a \in Get(e.info, "aliases", {})}

\* C7: the voice of a non-narrator segment depends on its speaker and the
\* cast map only: in whatever list the segment stands, it gets the voice it
\* gets when it is voiced alone (so any two lists agree on it).
C7_VoiceIndependentOfOtherSegments ==
    vpc = "assigned" =>
        \A i \in 1..Len(segments) :
            lower(segments[i].speaker) # "narrator" =>
                segments[i].voice =
                    assign_voices(<<[segments[i] EXCEPT !.voice = ""]>>, cast)[1].voice

\* two hash-voiced speakers whose digests pick the same pool index stand in
\* one list
C7_Witness ==
    /\ vpc = "assigned"
    /\ Len(segments) = 2
    /\ segments[1].speaker = "alice"
    /\ segments[2].speaker = "the child"
    /\ via = <<"hash", "hash">>
    /\ segments[1].voice = segments[2].voice

\* C8 as stated: whenever entry P lists A among its aliases, a segment
\* spoken by A and a segment spoken by P get the same voice.
C8_AliasSharesVoice_AnyCast ==
    vpc = "assigned" =>
        \A k \in 1..Len(cast.cast) : \A i, j \in 1..Len(segments) :
            ( /\ lower(segments[i].speaker) \in LowerAliases(cast.cast[k])
              /\ lower(segments[j].speaker) = lower(cast.cast[k].name) )
            => segments[i].voice = segments[j].voice

\* C8 amended: the same, provided A is not "narrator", no entry before P
\* lists A, P is not "narrator" and no other entry lists P as an alias.
C8_AliasSharesVoice ==
    vpc = "assigned" =>
        \A k \in 1..Len(cast.cast) : \A i, j \in 1..Len(segments) :
            ( /\ lower(segments[i].speaker) \in LowerAliases(cast.cast[k])
              /\ lower(segments[j].speaker) = lower(cast.cast[k].name)
              /\ lower(segments[i].speaker) # "narrator"
              /\ lower(segments[j].speaker) # "narrator"
              /\ \A m \in 1..(k - 1) :
                    lower(segments[i].speaker) \notin LowerAliases(cast.cast[m])
              /\ \A m \in 1..Len(cast.cast) :
                    m # k => lower(cast.cast[k].name) \notin LowerAliases(cast.cast[m]) )
            => segments[i].voice = segments[j].voice

\* "the niece" lists "the child", neither is pinned, and both speak
C8_Witness ==
    /\ vpc = "assigned"
    /\ Len(cast.cast) = 1
    /\ cast.cast[1] = [name |-> "The Niece", info |-> [aliases |-> {"The Child"}]]
    /\ Len(segments) = 2
    /\ segments[1].speaker = "the child"
    /\ segments[2].speaker = "the niece"
    /\ via = <<"hash", "hash">>
    /\ segments[1].voice = segments[2].voice

\* the voices the claim names: the narrator's two voices and every voice a
\* character entry pins
C9_Reserved ==
    {NARRATOR_VOICE, NARRATOR_DIALOGUE_VOICE}
    \cup {cast.narrator[k] : k \in DOMAIN cast.narrator \cap {"voice", "dialogue_voice"}}
    \cup {cast.cast[k].info["voice"] :
            k \in {m \in 1..Len(cast.cast) : "voice" \in DOMAIN cast.cast[m].info}}

\* C9: a hash-assigned voice is a pool voice, and is none of the reserved
\* voices unless every pool voice is reserved.
C9_HashVoiceAvoidsReserved ==
    vpc = "assigned" =>
        \A i \in 1..Len(segments) :
            via[i] = "hash" =>
                /\ segments[i].voice \in PoolSet(VOICE_POOL)
                /\ PoolSet(VOICE_POOL) \ C9_Reserved # {} =>
                        segments[i].voice \notin C9_Reserved

\* "alice" would hash to en-GB-ThomasNeural in the full pool, which the
\* cast map pins, and gets another voice
C9_Witness ==
    /\ vpc = "assigned"
    /\ "en-GB-ThomasNeural" \in C9_Reserved
    /\ hash_voice("alice", VOICE_POOL) = "en-GB-ThomasNeural"
    /\ \E i \in 1..Len(segments) :
            /\ segments[i].speaker = "alice"
            /\ via[i] = "hash"
            /\ segments[i].voice # "en-GB-ThomasNeural"

\* C10: a narrator segment gets the cast map's narrator dialogue voice when
\* it is dialogue and its narrator narration voice otherwise, each with its
\* own default, whatever the character entries and aliases say.
C10_NarratorVoices ==
    vpc = "assigned" =>
        \A i \in 1..Len(segments) :
            lower(segments[i].speaker) = "narrator" =>
                segments[i].voice =
                    IF segments[i].type = "dialogue"
                    THEN IF "dialogue_voice" \in DOMAIN cast.narrator
                         THEN cast.narrator["dialogue_voice"]
                         ELSE NARRATOR_DIALOGUE_VOICE
                    ELSE IF "voice" \in DOMAIN cast.narrator
                         THEN cast.narrator["voice"]
                         ELSE NARRATOR_VOICE

\* a pinned character lists "narrator" as an alias; the narrator's dialogue
\* keeps the default while the narration voice is overridden
C10_Witness ==
    /\ vpc = "assigned"
    /\ \E k \in 1..Len(cast.cast) :
            /\ "narrator" \in LowerAliases(cast.cast[k])
            /\ "voice" \in DOMAIN cast.cast[k].info
    /\ cast.narrator = [voice |-> "en-GB-ThomasNeural"]
    /\ Len(segments) = 2
    /\ segments[1] = Segment("dialogue", "t", "narrator", NARRATOR_DIALOGUE_VOICE)
    /\ segments[2] = Segment("narration", "t", "Narrator", "en-GB-ThomasNeural")

\* C11: after assign_voices returns, every segment has a non-empty voice,
\* for any segment list and any cast map, also one that pins every pool
\* voice or supplies empty voice values.
C11_EverySegmentVoiced ==
    vpc = "assigned" =>
        \A i \in 1..Len(segments) : segments[i].voice # ""

\* C19: a segment whose speaker is "narrator" or "unknown" gets the voice it
\* gets when no cast entry lists any alias: the narrator rule's voice, or
\* for "unknown" the voice of an entry named "unknown" if there is one and
\* the hash of "unknown" otherwise.
C19_ReservedNeverAliasResolved ==
    vpc = "assigned" =>
        \A i \in 1..Len(segments) :
            LET speaker == lower(segments[i].speaker)
                own     == cast_lookup_from(speaker, cast.cast, 1)
            IN  /\ speaker = "narrator" =>
                        segments[i].voice = narrator_branch(segments[i], cast)
                /\ speaker = "unknown" =>
                        segments[i].voice =
                            IF Truthy(own) THEN own
                            ELSE hash_voice("unknown", available_pool(cast))

----------------------------------------------------------------------------
(* Claims about check_step_fresh, checked under SpecFresh *)

\* the modification time the claim compares with: the file's own, or the
\* newest entry's for a directory
C6_OutputTime ==
    IF fOut.kind = "dir"
    THEN MaxOf({fOut.members[f] : f \in DOMAIN fOut.members})
    ELSE fOut.mtime

----------------------------------------------------------------------------
(* Claims about invalidate_downstream, checked under SpecInv *)

\* the rule of the last key (no rule for a key outside the map)
InvRule == IF invKey \in DOMAIN INVALIDATION_MAP THEN INVALIDATION_MAP[invKey] ELSE <<>>

\* the rule's categories that exist as directories, in rule order
InvPresent == SelectSeq(InvRule, LAMBDA c : c \in DOMAIN dirs)

\* C1 as stated: a second call in a row with the same key changes nothing and
\* returns an empty list.
C1_SecondCallReturnsEmpty ==
    (invKey # NoKey /\ invPrev.key = invKey) =>
        /\ dirs = invBefore.dirs
        /\ json = invBefore.json
        /\ invDeleted = <<>>

\* C1 amended: a second call in a row with the same key changes nothing and
\* returns the list the first call returned: the key's categories that exist
\* as directories (empty only when none of them exists).
C1_SecondCallRepeatsFirst ==
    (invKey # NoKey /\ invPrev.key = invKey) =>
        /\ dirs = invBefore.dirs
        /\ json = invBefore.json
        /\ invDeleted = invPrev.deleted
        /\ invDeleted = InvPresent

\* "voice" twice in a row on a project whose four categories exist
C1_Witness ==
    /\ invKey = "voice"
    /\ invPrev.key = "voice"
    /\ invPrev.deleted = <<"voice_demos", "segments", "samples", "final">>
    /\ dirs = invBefore.dirs
    /\ \A c \in Range(InvRule) : dirs[c] = EmptyDir

\* C2: the call empties, and keeps as a directory, exactly the categories of
\* the key's rule that existed; returns them in rule order; leaves every
\* other category and every JSON artifact as it was; creates nothing; a key
\* outside the map changes nothing and returns the empty list.
C2_InvalidateFrame ==
    invKey # NoKey =>
        /\ DOMAIN dirs = DOMAIN invBefore.dirs
        /\ \A c \in DOMAIN dirs :
              dirs[c] = IF c \in Range(InvRule) THEN EmptyDir ELSE invBefore.dirs[c]
        /\ invDeleted = SelectSeq(InvRule, LAMBDA c : c \in DOMAIN invBefore.dirs)
        /\ json = invBefore.json
        /\ invKey \notin DOMAIN INVALIDATION_MAP =>
              (dirs = invBefore.dirs /\ invDeleted = <<>>)

\* "music" on a project with music/ and final/ filled, samples/ missing and
\* chapters/ filled
C2_Witness ==
    /\ invKey = "music"
    /\ invPrev.key = NoKey
    /\ json # EmptyDict
    /\ DOMAIN invBefore.dirs = {"music", "final", "chapters", "segments"}
    /\ \A c \in DOMAIN invBefore.dirs : invBefore.dirs[c] = OneFile
    /\ invDeleted = <<"music", "final">>
    /\ dirs["chapters"] = OneFile
    /\ dirs["music"] = EmptyDir

----------------------------------------------------------------------------
(* Claims about get_project_status, checked under SpecStatus *)

\* the audio files in segments/ and the count the parse stage records
C5_Files ==
    IF "segments" \in DOMAIN dirs
    THEN Cardinality({f \in DOMAIN dirs["segments"] : IsMp3(f)})
    ELSE 0

C5_Recorded == "segments" \in DOMAIN status["parse"]

C5_Count == IF C5_Recorded THEN status["parse"]["segments"] ELSE 0

\* C5 as stated: "partial" exactly when audio files exist and are fewer than
\* the recorded count, "done" exactly when they exist and are at least as
\* many, also when the recorded count is zero.
C5_TtsDoneIffEnoughFiles ==
    (status # NoStatus /\ C5_Recorded) =>
        /\ status["tts"]["state"] = "partial" <=> (C5_Files > 0 /\ C5_Files < C5_Count)
        /\ status["tts"]["state"] = "done" <=> (C5_Files > 0 /\ C5_Files >= C5_Count)

\* C5 amended: "done" exactly when audio files exist, the recorded count is
\* not zero and the files are at least as many; "partial" exactly when audio
\* files exist and are fewer than the count or no non-zero count is recorded.
C5_TtsDoneIffEnoughFilesAndCount ==
    status # NoStatus =>
        /\ status["tts"]["state"] = "done"
              <=> (C5_Files > 0 /\ C5_Count # 0 /\ C5_Files >= C5_Count)
        /\ status["tts"]["state"] = "partial"
              <=> (C5_Files > 0 /\ (C5_Count = 0 \/ C5_Files < C5_Count))

\* two audio files and another file against a recorded count of two
C5_Witness ==
    /\ status # NoStatus
    /\ C5_Count = 2
    /\ "segments" \in DOMAIN dirs
    /\ DOMAIN dirs["segments"] = {<<"000", "mp3">>, <<"001", "mp3">>, <<"notes", "txt">>}
    /\ status["tts"] = [state |-> "done", files |-> 2]

----------------------------------------------------------------------------
(* Claims about cmd_set, checked under Spec *)

\* the setting as cmd_set's arguments give it, read back from the artifact
\* of its key
C3_ValueWritten ==
    LET v == last.values
        cast_data == json["cast.json"]
        direction == json["direction.json"]
        reverb    == json["effects.json"]["per_segment"]["dialogue"]["reverb"]
    IN  CASE last.key = "voice" ->
                /\ lower(v[1]) \in Names(cast_data["characters"])
                /\ Lookup(cast_data["characters"], lower(v[1]))["voice"] = v[2]
          [] last.key = "narrator-voice" ->
                cast_data["narrator"]["voice"] = v[1]
          [] last.key = "narrator-dialogue" ->
                cast_data["narrator"]["dialogue_voice"] = v[1]
          [] last.key = "music" ->
                direction["no_music"] = (v[1] = "off")
          [] last.key = "music-file" ->
                direction["music_source"] = "user:" \o v[1]
          [] last.key = "music-db" ->
                direction["music_bed_db"] = float(v[1])
          [] last.key = "reverb" ->
                reverb = IF v[1] = "on" THEN default_reverb ELSE JsonNull
          [] last.key = "reverb-room" ->
                reverb # JsonNull /\ reverb["room_size"] = float(v[1])
          [] last.key = "reverb-wet" ->
                reverb # JsonNull /\ reverb["wet_level"] = float(v[1])
          [] OTHER -> FALSE

C3_Emptied(c) == c \in DOMAIN dirs /\ dirs[c] = EmptyDir

\* C3: after every cmd_set that completed successfully, the key is one of
\* the nine accepted keys, its settings artifact holds the new value, and
\* every category the invalidation map lists for the key is an existing
\* empty directory; samples/ and final/ are empty whatever the key.
C3_SetWritesAndInvalidates ==
    (last.cmd = "set" /\ last.outcome = "ok") =>
        /\ last.key \in valid_keys
        /\ last.key \in DOMAIN INVALIDATION_MAP
        /\ C3_ValueWritten
        /\ \A c \in Range(INVALIDATION_MAP[last.key]) : C3_Emptied(c)
        /\ C3_Emptied("samples")
        /\ C3_Emptied("final")

\* a music file was installed right after a successful run, which had left
\* a preview in samples/ and the production in final/
C3_Witness ==
    /\ last.cmd = "set"
    /\ last.outcome = "ok"
    /\ last.key = "music-file"
    /\ last.clean
    /\ <<"background", "mp3">> \in DOMAIN dirs["music"]

\* C18: a cmd_new whose file is missing, is empty, parses to no segments,
\* or whose project already exists, exits and leaves the project directory
\* and the four artifacts as they were (absent, if they were absent).
C18_FailedNewChangesNothing ==
    [][\A file \in FileChoices :
            (/\ CmdNew(file)
             /\ \/ ~file.exists
                \/ strip(file.text) = ""
                \/ file.segments = <<>>
                \/ "script.json" \in DOMAIN json)
            => (last'.outcome = "exit" /\ json' = json /\ dirs' = dirs)]_vars

\* a file that parses to no segments was refused and there is no project
C18_Witness ==
    /\ last.cmd = "new"
    /\ last.outcome = "exit"
    /\ last.key = "Could not parse any segments"
    /\ json = EmptyDict
    /\ dirs = EmptyDict

----------------------------------------------------------------------------
(* Claims about resumed runs, checked under SpecResume *)

\* C4: a cmd_run without --force that follows a successful cmd_run, with no
\* set command in between, calls the speech service for no segment; and no
\* cmd_run calls it for a segment whose audio file existed with non-zero
\* size when the TTS step began.
C4_NoResynthesis ==
    (last.cmd = "run") =>
        /\ (last.clean /\ ~last.force) => last.synth = {}
        /\ last.synth \cap last.present = {}

\* a successful run right after a successful run: every segment's audio
\* was there, the TTS step was skipped
C4_Witness ==
    /\ last.cmd = "run"
    /\ last.outcome = "ok"
    /\ last.clean
    /\ ~last.force
    /\ last.tts_skipped
    /\ last.present # {}
    /\ last.synth = {}

----------------------------------------------------------------------------
(* Claims about the segments a run reads back, checked under SpecResume *)

\* a run that got as far as reading script.json and cast.json, no set
\* command having been given since the project was created
ReadBackUnset ==
    /\ last.cmd = "run"
    /\ last.outcome # "exit"
    /\ ~hist.set

\* C12: the story, intro and outro segment lists cmd_run reads back from
\* script.json are, segment by segment, the (type, text, speaker, voice)
\* tuples cmd_new held when it wrote them.
C12_ScriptRoundTrip ==
    ReadBackUnset =>
        /\ last.script.intro_segments = hist.new.intro_segments
        /\ last.script.segments = hist.new.segments
        /\ last.script.outro_segments = hist.new.outro_segments

\* C13: every narrator segment of the outro cmd_new generated has the
\* narration voice the narrator was given in the story body, and that voice
\* is the one on the narrator segments of the intro.
C13_NarratorVoiceContinuity ==
    LET body  == hist.new.segments
        intro == hist.new.intro_segments
        outro == hist.new.outro_segments
    IN  \A k \in 1..Len(outro) :
            outro[k].speaker = "narrator" =>
                /\ \A i \in 1..Len(body) :
                        (lower(body[i].speaker) = "narrator"
                         /\ body[i].type = "narration") =>
                            outro[k].voice = body[i].voice
                /\ \A m \in 1..Len(intro) :
                        intro[m].speaker = "narrator" =>
                            outro[k].voice = intro[m].voice

\* C20: with no set command in between, every story segment has in every
\* cmd_run the voice assign_voices gave it in cmd_new.
C20_VoicesStableAcrossRuns ==
    ReadBackUnset =>
        /\ Len(last.script.segments) = Len(hist.new.segments)
        /\ \A i \in 1..Len(hist.new.segments) :
                last.script.segments[i].voice = hist.new.segments[i].voice

----------------------------------------------------------------------------
(* Claims about the pauses of the assembly, checked under SpecPause *)

\* the pauses of the rules that apply between two adjacent segments
C16_Applicable(prev, curr) ==
    {PAUSE_SAME_TYPE_MS}
    \cup (IF prev.type # curr.type THEN {PAUSE_TYPE_TRANSITION_MS} ELSE {})
    \cup (IF prev.speaker # curr.speaker THEN {PAUSE_SPEAKER_CHANGE_MS} ELSE {})

\* C16: the concatenation of n clips is the clips in order with exactly one
\* silence between each adjacent pair, n-1 in all, and each silence lasts
\* the greatest of the pauses of the rules that apply to the pair (never
\* their sum).
C16_PauseIsMaxOfRules ==
    apc = "done" =>
        LET n == Len(aAudio) IN
        /\ Len(aOut) = IF n = 0 THEN 0 ELSE 2 * n - 1
        /\ \A i \in 1..n : aOut[2 * i - 1] = aAudio[i][1]
        /\ \A i \in 1..(n - 1) :
                /\ aOut[2 * i].kind = "silence"
                /\ aOut[2 * i].ms \in C16_Applicable(aSegments[i], aSegments[i + 1])
                /\ \A p \in C16_Applicable(aSegments[i], aSegments[i + 1]) :
                        p <= aOut[2 * i].ms

\* narration by the narrator followed by dialogue of a character: both
\* rules apply, the pause is the type-transition pause
C16_Witness ==
    /\ apc = "done"
    /\ Len(aSegments) = 3
    /\ aSegments[1].type = "narration"
    /\ aSegments[1].speaker = "narrator"
    /\ aSegments[2].type = "dialogue"
    /\ aSegments[2].speaker = "bob"
    /\ aOut[2].ms = PAUSE_TYPE_TRANSITION_MS
    /\ Len(aOut) = 5

----------------------------------------------------------------------------
(* Claims about generate_single, checked under SpecSingle *)

\* the attempts, among the first TTS_RETRY_COUNT, at which the service
\* writes audio and raises nothing
C17_Good ==
    {k \in 1..TTS_RETRY_COUNT :
        gService[k].write = "audio" /\ gService[k].error = ""}

\* C17: generate_single makes at most TTS_RETRY_COUNT attempts and returns
\* at the first that returns leaving a non-empty file; an attempt that
\* leaves a zero-byte file counts as one that raised; it sleeps, the delay doubling,
\* before each attempt but the first and not after the last; when no
\* attempt succeeds it raises the error of the last attempt.
C17_RetryThenRaiseLast ==
    gpc = "done" =>
        /\ gOut.attempts \in 1..TTS_RETRY_COUNT
        /\ \A k \in C17_Good :
                (\A m \in C17_Good : k <= m) =>
                    /\ ~gOut.raised
                    /\ gOut.attempts = k
                    /\ gFile = FileOf(1, k)
        /\ C17_Good = {} =>
                /\ gOut.raised
                /\ gOut.attempts = TTS_RETRY_COUNT
                /\ gOut.error =
                        IF gService[TTS_RETRY_COUNT].error = ""
                        THEN ZeroByteError
                        ELSE gService[TTS_RETRY_COUNT].error
        /\ Len(gOut.sleeps) = gOut.attempts - 1
        /\ \A i \in 1..Len(gOut.sleeps) :
                gOut.sleeps[i] = TTS_RETRY_BASE_DELAY * (2 ^ (i - 1))

\* the service raises, then leaves a zero-byte file, then raises again:
\* three attempts, two sleeps, and the third error is raised although a
\* fourth attempt would have succeeded
C17_Witness ==
    /\ gpc = "done"
    /\ gService[1] = Answer("none", "timeout")
    /\ gService[2] = Answer("empty", "")
    /\ gService[3] = Answer("empty", "http 503")
    /\ gService[4] = Answer("audio", "")
    /\ gOut.raised
    /\ gOut.error = "http 503"
    /\ gOut.sleeps = <<1, 2>>

----------------------------------------------------------------------------
(* Claims about _split_long_segment, checked under SpecSplit *)

\* " ".join(strs)
RECURSIVE C14_Join(_)
C14_Join(strs) ==
    IF strs = <<>> THEN ""
    ELSE IF Len(strs) = 1 THEN strs[1]
    ELSE strs[1] \o " " \o C14_Join(Tail(strs))

\* the sentences of the chunks, chunk after chunk
RECURSIVE C14_Sentences(_)
C14_Sentences(chunks) ==
    IF chunks = <<>> THEN <<>>
    ELSE split_sentences(chunks[1]) \o C14_Sentences(Tail(chunks))

\* C14: for a text longer than the threshold the chunks hold, in order,
\* the sentences of the text joined by single spaces; a chunk longer than
\* the threshold is one sentence; no chunk had room for the first sentence
\* of the chunk after it.  A text no longer than the threshold comes back
\* as the one chunk.
C14_ChunksAreGreedySentences ==
    ppc = "done" =>
        IF Len(pText) <= pThreshold THEN pOut = <<pText>>
        ELSE /\ C14_Sentences(pOut) = split_sentences(pText)
             /\ C14_Join(pOut) = C14_Join(split_sentences(pText))
             /\ \A i \in 1..Len(pOut) :
                    Len(pOut[i]) > pThreshold =>
                        Len(split_sentences(pOut[i])) = 1
             /\ \A i \in 1..(Len(pOut) - 1) :
                    Len(pOut[i]) + 1 + Len(split_sentences(pOut[i + 1])[1])
                        > pThreshold

\* a sentence longer than the threshold is kept whole between two chunks
\* that are filled
C14_Witness ==
    /\ ppc = "done"
    /\ pThreshold = 3
    /\ pText = "a. aaaa"
    /\ pOut = <<"a.", "aaaa">>

----------------------------------------------------------------------------
(* Claims about what repeated runs leave in the project *)

\* C25: after a successful cmd_run without --force that follows a successful
\* cmd_run, with no set command in between, every audio file of segments/
\* has had the effects stage applied exactly once to its synthesized audio.
C25_EffectsAppliedOnce ==
    (last.cmd = "run" /\ last.outcome = "ok" /\ last.clean /\ ~last.force) =>
        \A f \in DOMAIN dirs["segments"] : dirs["segments"][f].fx = 1

\* C26: a cmd_run skips the TTS step only if, when the step begins, every
\* intro, story and outro segment has an audio file of non-zero size under
\* its expected name.
C26_SkipOnlyIfAllPresent ==
    (last.cmd = "run" /\ last.tts_skipped) =>
        last.present
            = 0..(Len(last.script.intro_segments) + Len(last.script.segments)
                  + Len(last.script.outro_segments) - 1)

\* C27: in every project state in which get_project_status reports the tts
\* stage "done", a cmd_run without --force skips the TTS step.
C27_StatusDoneImpliesRunSkips ==
    [][\A r \in ResumeRunChoices(json) :
            (/\ CmdRun(r[1], r[2], r[3], r[4])
             /\ ~r[1]
             /\ get_project_status(json, dirs).tts.state = "done")
            => last'.tts_skipped]_vars

\* C28: after successful set voice, set narrator-voice or set
\* narrator-dialogue commands, a run synthesizes every intro and outro
\* segment with the voice that the same run gives that speaker in the story
\* body: the narrator's narration voice for the narrator's lines, the
\* character's voice for the line in which the character says their name
C28_BodyVoice(b, s) ==
    /\ s.speaker = b.speaker
    /\ b.speaker = "narrator" => s.type = "narration"

C28_BookendVoicesFollowBody ==
    (last.cmd = "run" /\ last.outcome = "ok" /\ hist.set) =>
        \A i \in 1..Len(last.script.intro_segments \o last.script.outro_segments) :
            \A k \in 1..Len(last.script.segments) :
                LET b == (last.script.intro_segments \o last.script.outro_segments)[i]
                    s == last.script.segments[k]
                IN  C28_BodyVoice(b, s) => b.voice = s.voice

\* the user's track is music/background.mp3 and direction.json names it
C29_Installed(j, d) ==
    /\ "music" \in DOMAIN d
    /\ <<"background", "mp3">> \in DOMAIN d["music"]
    /\ d["music"][<<"background", "mp3">>] = Track("user:track.mp3")
    /\ "direction.json" \in DOMAIN j
    /\ Get(j["direction.json"], "music_source", None) = "user:track.mp3"

\* the command of this step left the user's track in place, and if it was a
\* successful run with music enabled, the production was made with it
C29_Kept ==
    /\ C29_Installed(json', dirs')
    /\ (/\ last'.cmd = "run" /\ last'.outcome = "ok"
        /\ ~Get(json'["direction.json"], "no_music", FALSE))
       => dirs'["final"][<<"output", "json">>].settings.music_source
              = "user:track.mp3"

C29_SetMusicFile == last'.cmd = "set" /\ last'.outcome = "ok" /\ last'.key = "music-file"

C29_Clearing ==
    \/ last'.cmd = "set" /\ last'.outcome = "ok" /\ last'.key = "music"
    \/ last'.cmd = "run" /\ last'.force

\* C29 as stated: once set music-file has installed a track, every command
\* other than another successful set music-file leaves it in place, and every
\* run with music enabled uses it and records its user:<file> provenance:
\* set music on/off, the other settings and run --force included
C29_UserTrackUntilNextMusicFile ==
    [][(C29_Installed(json, dirs) /\ ~C29_SetMusicFile) => C29_Kept]_vars

\* C29, amended: once set music-file has installed a track, every command
\* other than a successful set music-file, a successful set music on/off and
\* a run --force leaves it in place, and every such run with music enabled
\* uses it and records its user:<file> provenance
C29_UserTrackUntilCleared ==
    [][(C29_Installed(json, dirs) /\ ~C29_SetMusicFile /\ ~C29_Clearing)
        => C29_Kept]_vars

\* a run without --force, after set music-file and set music-db, has made
\* the production with the user's track
C29_Witness ==
    /\ last.cmd = "run" /\ last.outcome = "ok" /\ ~last.force
    /\ C29_Installed(json, dirs)
    /\ Get(json["direction.json"], "music_bed_db", MUSIC_BED_DB) # MUSIC_BED_DB
    /\ dirs["final"][<<"output", "json">>].settings.music_source = "user:track.mp3"

\* the arguments that cmd_set refuses: a key outside the accepted set, a
\* missing or malformed value, a music file that is missing or is not audio
C30_Refused(key, values) ==
    IF key \notin valid_keys THEN TRUE
    ELSE IF key = "voice" THEN Len(values) < 2
    ELSE IF values = <<>> THEN TRUE
    ELSE IF key \in {"music", "reverb"} THEN values[1] \notin {"on", "off"}
    ELSE IF key = "music-file"
    THEN values[1] \notin DOMAIN MusicFiles \/ MusicFiles[values[1]] # "audio"
    ELSE IF key \in {"music-db", "reverb-room", "reverb-wet"}
    THEN float(values[1]) = "ValueError"
    ELSE FALSE

\* C30: a cmd_set that ends with an error exit (key outside the accepted
\* set, missing or malformed value, music file that does not exist or cannot
\* be loaded as audio) leaves cast.json, direction.json, effects.json and the
\* contents of every artifact category unchanged and invalidates nothing.
C30_FailedSetChangesNothing ==
    [][\A s \in SetChoices :
            (CmdSet(s[1], s[2]) /\ (C30_Refused(s[1], s[2]) \/ last'.outcome = "exit"))
            => (last'.outcome = "exit" /\ json' = json /\ dirs' = dirs)]_vars

\* a set command was refused on a project that a run had completed, and the
\* production and the audio of the segments are still there
C30_Witness ==
    /\ last.cmd = "set"
    /\ last.outcome = "exit"
    /\ "script.json" \in DOMAIN json
    /\ dirs["segments"] # EmptyDir
    /\ <<"output", "json">> \in DOMAIN dirs["final"]

====
